---- MODULE Spec2Model ----
(***************************************************************************)
(* Model of the WeChat customer-service relay (src/index.js,               *)
(* src/clients.js): the callback orchestrator, the deduplication ledger    *)
(* (MessageTracker), the conversation store (ConversationManager) and the  *)
(* reply dispatch loop.                                                    *)
(*                                                                         *)
(* Strings that the code only slices and concatenates (the AI reply) are   *)
(* modelled by their index arithmetic: a reply is lead whitespace          *)
(* characters, core characters whose first and last are not whitespace,    *)
(* and trail whitespace characters; a substring is the half-open interval  *)
(* [lo, hi) of positions of the reply it covers.                           *)
(***************************************************************************)
EXTENDS Integers, Sequences, FiniteSets, TLC

VARIABLES
    mailbox,          \* remote inbox: sequence of messages in arrival order
    ledger,           \* MESSAGE_TRACKER KV: key -> <<>> (absent) or <<record>>
    conv,             \* CONVERSATIONS KV: user -> <<>> (absent) or stored window
    systemPrompt,     \* env.SYSTEM_PROMPT of the running deployment
    clock,            \* Date.now()
    pc,               \* per callback task: the await it is suspended at
    ack,              \* per delivery: HTTP response body of handleCallback
    sig,              \* per task: params.msgSignature
    latest,           \* per task: newest message of its sync, <<>> if none
    unprocessed,      \* per task: result of getLatestTextMessages
    history,          \* per task: local array inside add*Message
    aiMessages,       \* per task: window handed to chatCompletion
    assistantMessage, \* per task: the reply, <<>> before it exists
    messageChunks,    \* per task: splitStringByLength(...) result
    idx,              \* per task: loop index i of the dispatch loop
    sentLog,          \* per task: gateway calls that succeeded, in order
    aiCalls,          \* per task: number of chatCompletion invocations
    lastGet,          \* per task: outcome of its latest isMessageProcessed call
    skipped,          \* per task: processUserMessage returned at "already processed"
    gwFailed,         \* per task: some gateway call of this task failed
    ledgerFault,      \* per task: some ledger read or write of this task failed
    doneBefore,       \* per task: tasks already terminated when it started
    faults,           \* collaborator failures the environment may still inject
    decryptRet,       \* per task: ret of wxcrypt.decryptMsg, 1 before the call
    callError,        \* per task: what the catch of handleCallbackAsync caught
    apc,              \* conversation API caller: last operation and its user
    ret,              \* conversation API caller: value returned by that operation
    appended,         \* per user: entries appended through the API, in order
    ledgerExpiration, \* per ledger key: when its entry expires, 0 while it has none
    convExpiration,   \* per user: when the stored window expires, 0 while there is none
    cursor,           \* syncAllMessages: local cursor, 0 for null
    allMessages,      \* syncAllMessages: local accumulator
    requests,         \* syncAllMessages: the syncMessages calls made, in order
    syncPc            \* syncAllMessages: in the loop, returned, or threw

vars == <<mailbox, ledger, conv, systemPrompt, clock, pc, ack, sig, latest,
          unprocessed, history, aiMessages, assistantMessage, messageChunks,
          idx, sentLog, aiCalls, lastGet, skipped, gwFailed, ledgerFault,
          doneBefore, faults, decryptRet, callError, apc, ret, appended,
          ledgerExpiration, convExpiration, cursor, allMessages, requests, syncPc>>

(***************************************************************************)
(* Bounds of the model                                                     *)
(***************************************************************************)
MaxTasks == 2
MaxMsgs == 2
MaxFaults == 1
MaxSeqFaults == 3
MaxFairFaults == 2
MaxPad == 1
MaxChunks == 7
MaxAppends == 11
MaxOtherAppends == 1

(***************************************************************************)
(* Program constants                                                       *)
(***************************************************************************)
messageChunkSize == 1024
messageChunkCount == 5
maxHistoryLength == 10
expirationTtl == 86400

Tasks == 1..MaxTasks
Users == {"uA", "uB"}
Prompts == {"P1", "P2"}
MsgIds == 1..MaxMsgs
Sigs == {101, 102}
\* signatures are named in the order the deliveries first use them
FreshSigs(t) == {s \in Sigs : s - 100 <= t}
Keys == MsgIds \cup Sigs

Min(a, b) == IF a < b THEN a ELSE b

(***************************************************************************)
(* Replies as strings                                                      *)
(***************************************************************************)
StrLen(s) == s.lead + s.core + s.trail

Whole(s) == [lo |-> 0, hi |-> StrLen(s)]

\* String.prototype.trim(): drops the leading and trailing whitespace
Trim(s) == [lo |-> s.lead, hi |-> s.lead + s.core]

SliceLen(x) == x.hi - x.lo

RECURSIVE splitFrom(_, _, _, _)
splitFrom(str, len, index, result) ==
    IF index < SliceLen(str)
    THEN splitFrom(str, len, index + len,
                   Append(result, [lo |-> str.lo + index,
                                   hi |-> str.lo + Min(index + len, SliceLen(str))]))
    ELSE result

\* variant: each slice stops one character short, str.slice(index, index + len - 1)
splitStringByLength_shortSlice(str, len) ==
    [i \in 1..Len(splitFrom(str, len, 0, <<>>)) |->
        [lo |-> splitFrom(str, len, 0, <<>>)[i].lo,
         hi |-> splitFrom(str, len, 0, <<>>)[i].hi - 1]]

splitStringByLength(str, len) == splitFrom(str, len, 0, <<>>)

(***************************************************************************)
(* Deduplication ledger (MessageTracker)                                   *)
(***************************************************************************)
getMessageKey(msgId) == msgId

\* variant: a failing read is answered with true (fail-closed)
isMessageProcessed_failClosed(stored, ok) == IF ok THEN stored # <<>> ELSE TRUE

\* kv.get(key) !== null; a failing read is caught and answered with false
isMessageProcessed(stored, ok) == IF ok THEN stored # <<>> ELSE FALSE

\* the record written by markMessageAsProcessed(msgId, metadata):
\* {msgId, timestamp: Date.now(), ...metadata}, the metadata fields winning
ProcessingRecord(msgId, metadata) ==
    metadata @@ [msgId |-> msgId, timestamp |-> clock]

\* kv.put(key, value, {expirationTtl}): the entry expires expirationTtl
\* after the put, whatever expiration the key had before
putExpiration(exp, key) == [exp EXCEPT ![key] = clock + expirationTtl]

\* variant: the record is built but never put
markMessageAsProcessed_noPut(store, msgId, metadata) == store

\* variant: an existing record is left as it is
markMessageAsProcessed_keepFirst(store, msgId, metadata) ==
    IF store[getMessageKey(msgId)] # <<>> THEN store
    ELSE [store EXCEPT ![getMessageKey(msgId)] = <<ProcessingRecord(msgId, metadata)>>]

markMessageAsProcessed(store, msgId, metadata) ==
    [store EXCEPT ![getMessageKey(msgId)] = <<ProcessingRecord(msgId, metadata)>>]

\* metadata of a call-level record; the timestamp and nonce of a delivery
\* are identified with its signature s
CallMeta(s, success) ==
    IF success
    THEN [timestamp |-> s, nonce |-> s, success |-> TRUE]
    ELSE [timestamp |-> s, nonce |-> s, error |-> "message", success |-> FALSE]

\* metadata of the message-level record written after the dispatch
MsgMeta(m, reply) ==
    [externalUserid |-> m.external_userid, content |-> m.content,
     assistantMessage |-> reply, success |-> TRUE]

\* metadata of the message-level record written by the catch block
ErrorMeta(m) ==
    [externalUserid |-> m.external_userid, content |-> m.content,
     error |-> "message", success |-> FALSE]

(***************************************************************************)
(* Conversation store (ConversationManager)                                *)
(***************************************************************************)
\* {role: 'system', content: this.systemPrompt}
SystemEntry(prompt) == [role |-> "system", content |-> prompt]

\* variant: the stored system entry is not removed
getConversationHistory_keepStale(stored, ok, prompt) ==
    IF ~ok THEN <<SystemEntry(prompt)>>
    ELSE <<SystemEntry(prompt)>> \o stored

\* variant: the catch block returns an empty window
getConversationHistory_emptyOnFail(stored, ok, prompt) ==
    IF ~ok THEN <<>>
    ELSE LET stripped == IF Len(stored) > 0 /\ stored[1].role = "system"
                         THEN Tail(stored) ELSE stored
         IN  <<SystemEntry(prompt)>> \o stripped

\* parse the stored window, drop a leading system entry, put the current
\* system prompt in front; any failure yields the system entry alone
getConversationHistory(stored, ok, prompt) ==
    IF ~ok THEN <<SystemEntry(prompt)>>
    ELSE LET parsed == stored
             stripped == IF Len(parsed) > 0 /\ parsed[1].role = "system"
                         THEN Tail(parsed) ELSE parsed
         IN  <<SystemEntry(prompt)>> \o stripped

\* variant: no trimming at all
trimmedHistory_unbounded(h) == h

\* variant: the oldest entries are kept, the newest evicted
trimmedHistory_keepOldest(h) ==
    IF Len(h) > maxHistoryLength + 1
    THEN SubSeq(h, 1, maxHistoryLength + 1)
    ELSE h

\* the trimming step of saveConversationHistory
trimmedHistory(h) ==
    IF Len(h) > maxHistoryLength + 1
    THEN <<h[1]>> \o SubSeq(h, Len(h) - maxHistoryLength + 1, Len(h))
    ELSE h

\* history.push({role, content, timestamp: Date.now()})
pushEntry(h, role, content) ==
    Append(h, [role |-> role, content |-> content, timestamp |-> clock])

\* variant: the stored entries are handed on as they are
toAiMessages_raw(h) == h

\* updatedHistory.map(msg => ({role, content}))
toAiMessages(h) == [i \in 1..Len(h) |-> [role |-> h[i].role, content |-> h[i].content]]

(***************************************************************************)
(* Inbox synchronizer                                                      *)
(***************************************************************************)
\* variant: the sort is ascending, the oldest message comes first
NewestIndex_oldest(msgs) ==
    CHOOSE i \in 1..Len(msgs) :
        \A j \in 1..Len(msgs) :
            \/ msgs[j].send_time > msgs[i].send_time
            \/ (msgs[j].send_time = msgs[i].send_time /\ i <= j)

\* position of the message that the descending stable sort puts first
NewestIndex(msgs) ==
    CHOOSE i \in 1..Len(msgs) :
        \A j \in 1..Len(msgs) :
            \/ msgs[j].send_time < msgs[i].send_time
            \/ (msgs[j].send_time = msgs[i].send_time /\ i <= j)

\* variant: the scan goes on to the newest text message
NewestMessage_newestText(msgs) ==
    LET texts == SelectSeq(msgs, LAMBDA m : m.msgtype = "text") IN
    IF texts = <<>> THEN <<>> ELSE <<texts[NewestIndex(texts)]>>

\* variant: no sort, the scan looks at the first message of the sync
NewestMessage_first(msgs) == IF msgs = <<>> THEN <<>> ELSE <<msgs[1]>>

\* the single message the scan of getLatestTextMessages looks at
NewestMessage(msgs) == IF msgs = <<>> THEN <<>> ELSE <<msgs[NewestIndex(msgs)]>>

\* message.msgtype === 'text' && content && msgid
IsCandidate(m) == m.msgtype = "text" /\ StrLen(m.content) > 0 /\ m.msgid # 0

(***************************************************************************)
(* Initial state                                                           *)
(***************************************************************************)
\* the state of a fresh deployment; budget: failures the environment may inject
Start(budget) ==
    /\ mailbox = <<>>
    /\ ledger = [k \in Keys |-> <<>>]
    /\ conv = [u \in Users |-> <<>>]
    /\ systemPrompt = "P1"
    /\ clock = 0
    /\ pc = [t \in Tasks |-> "idle"]
    /\ ack = [t \in Tasks |-> "none"]
    /\ sig = [t \in Tasks |-> 0]
    /\ latest = [t \in Tasks |-> <<>>]
    /\ unprocessed = [t \in Tasks |-> <<>>]
    /\ history = [t \in Tasks |-> <<>>]
    /\ aiMessages = [t \in Tasks |-> <<>>]
    /\ assistantMessage = [t \in Tasks |-> <<>>]
    /\ messageChunks = [t \in Tasks |-> <<>>]
    /\ idx = [t \in Tasks |-> 0]
    /\ sentLog = [t \in Tasks |-> <<>>]
    /\ aiCalls = [t \in Tasks |-> 0]
    /\ lastGet = [t \in Tasks |-> "none"]
    /\ skipped = [t \in Tasks |-> FALSE]
    /\ gwFailed = [t \in Tasks |-> FALSE]
    /\ ledgerFault = [t \in Tasks |-> FALSE]
    /\ doneBefore = [t \in Tasks |-> {}]
    /\ faults = budget
    /\ decryptRet = [t \in Tasks |-> 1]
    /\ callError = [t \in Tasks |-> "none"]
    /\ apc = [op |-> "idle", user |-> "uA"]
    /\ ret = <<>>
    /\ appended = [u \in Users |-> <<>>]
    /\ ledgerExpiration = [k \in Keys |-> 0]
    /\ convExpiration = [u \in Users |-> 0]
    /\ cursor = 0
    /\ allMessages = <<>>
    /\ requests = <<>>
    /\ syncPc = "loop"

Init == Start(MaxFaults)

apiVars == <<apc, ret, appended>>
callVars == <<decryptRet, callError>>
pagerVars == <<cursor, allMessages, requests, syncPc>>
envVars == <<mailbox, systemPrompt>>
localVars == <<latest, unprocessed, history, aiMessages, assistantMessage,
               messageChunks, idx>>
ghostVars == <<sentLog, aiCalls, lastGet, skipped, gwFailed, ledgerFault>>

Terminal == {"done", "rejected", "refused"}

\* a collaborator call may fail while the failure budget lasts
Outcome(ok) ==
    /\ ok \/ faults > 0
    /\ faults' = IF ok THEN faults ELSE faults - 1

\* the message a task is working on
Msg(t) == latest[t][1]

\* what the KV did on a get: threw, found the key, or found nothing
GetOutcome(stored, ok) == IF ~ok THEN "error" ELSE IF stored # <<>> THEN "hit" ELSE "miss"

(***************************************************************************)
(* handleCallback: the webhook endpoint                                    *)
(***************************************************************************)
\* variant: the response is produced only once the task has run
handleCallback_awaitTask(t, s, valid) ==
    /\ pc[t] = "idle"
    /\ s \in FreshSigs(t)
    /\ IF valid
       THEN /\ pc' = [pc EXCEPT ![t] = "decrypt"]
            /\ sig' = [sig EXCEPT ![t] = s]
            /\ doneBefore' = [doneBefore EXCEPT ![t] = {u \in Tasks : pc[u] \in Terminal}]
            /\ UNCHANGED ack
       ELSE /\ pc' = [pc EXCEPT ![t] = "refused"]
            /\ ack' = [ack EXCEPT ![t] = "bad_request"]
            /\ UNCHANGED <<sig, doneBefore>>
    /\ UNCHANGED <<ledger, ledgerExpiration, conv, convExpiration, clock, faults, envVars,
                   localVars, ghostVars, apiVars, callVars, pagerVars>>

\* valid: msg_signature, timestamp, nonce and a non-empty body are present.
\* The task is handed to ctx.waitUntil and the response is returned at once.
handleCallback(t, s, valid) ==
    /\ pc[t] = "idle"
    /\ s \in FreshSigs(t)
    /\ IF valid
       THEN /\ pc' = [pc EXCEPT ![t] = "decrypt"]
            /\ ack' = [ack EXCEPT ![t] = "success"]
            /\ sig' = [sig EXCEPT ![t] = s]
            /\ doneBefore' = [doneBefore EXCEPT ![t] = {u \in Tasks : pc[u] \in Terminal}]
       ELSE /\ pc' = [pc EXCEPT ![t] = "refused"]
            /\ ack' = [ack EXCEPT ![t] = "bad_request"]
            /\ UNCHANGED <<sig, doneBefore>>
    /\ UNCHANGED <<ledger, ledgerExpiration, conv, convExpiration, clock, faults, envVars,
                   localVars, ghostVars, apiVars, callVars, pagerVars>>

(***************************************************************************)
(* handleCallbackAsync                                                     *)
(***************************************************************************)
\* variant: the ret of decryptMsg is not looked at
decryptMsg_ignoreRet(t, ok) ==
    /\ pc[t] = "decrypt"
    /\ Outcome(ok)
    /\ decryptRet' = [decryptRet EXCEPT ![t] = IF ok THEN 0 ELSE -40007]
    /\ pc' = [pc EXCEPT ![t] = "sync"]
    /\ UNCHANGED <<ledger, ledgerExpiration, conv, convExpiration, clock, ack, sig,
                   doneBefore, envVars, localVars, ghostVars, apiVars, callError,
                   pagerVars>>

\* wxcrypt.decryptMsg: ret = 0 lets the task go on; a failure inside it is
\* caught there and comes back as ret = -40007, on which the task returns
decryptMsg(t, ok) ==
    /\ pc[t] = "decrypt"
    /\ Outcome(ok)
    /\ decryptRet' = [decryptRet EXCEPT ![t] = IF ok THEN 0 ELSE -40007]
    /\ pc' = [pc EXCEPT ![t] = IF ok THEN "sync" ELSE "done"]
    /\ UNCHANGED <<ledger, ledgerExpiration, conv, convExpiration, clock, ack, sig,
                   doneBefore, envVars, localVars, ghostVars, apiVars, callError,
                   pagerVars>>

\* variant: a failing sync marks the newest message it knows of as processed
syncAllMessages_markNewest(t, ok) ==
    /\ pc[t] = "sync"
    /\ Outcome(ok)
    /\ IF ok
       THEN LET newest == NewestMessage(mailbox) IN
            /\ latest' = [latest EXCEPT ![t] = newest]
            /\ pc' = [pc EXCEPT ![t] =
                        IF newest # <<>> /\ IsCandidate(newest[1])
                        THEN "syncCheck" ELSE "markCall"]
            /\ UNCHANGED <<ledger, ledgerExpiration>>
       ELSE /\ pc' = [pc EXCEPT ![t] = "markCallFail"]
            /\ ledger' = IF mailbox = <<>> THEN ledger
                         ELSE markMessageAsProcessed(ledger, NewestMessage(mailbox)[1].msgid,
                                                     ErrorMeta(NewestMessage(mailbox)[1]))
            /\ UNCHANGED <<latest, ledgerExpiration>>
    /\ callError' = [callError EXCEPT ![t] = IF ok THEN @ ELSE "sync"]
    /\ UNCHANGED <<conv, convExpiration, clock, ack, sig, doneBefore, envVars,
                   unprocessed, history, aiMessages, assistantMessage, messageChunks, idx,
                   ghostVars, apiVars, decryptRet, pagerVars>>

\* getLatestTextMessages, first await: syncAllMessages, then the sort and
\* the look at the newest message
syncAllMessages(t, ok) ==
    /\ pc[t] = "sync"
    /\ Outcome(ok)
    /\ IF ok
       THEN LET newest == NewestMessage(mailbox) IN
            /\ latest' = [latest EXCEPT ![t] = newest]
            /\ pc' = [pc EXCEPT ![t] =
                        IF newest # <<>> /\ IsCandidate(newest[1])
                        THEN "syncCheck" ELSE "markCall"]
       ELSE /\ pc' = [pc EXCEPT ![t] = "markCallFail"]
            /\ UNCHANGED latest
    /\ callError' = [callError EXCEPT ![t] = IF ok THEN @ ELSE "sync"]
    /\ UNCHANGED <<ledger, ledgerExpiration, conv, convExpiration, clock, ack, sig,
                   doneBefore, envVars, unprocessed, history, aiMessages,
                   assistantMessage, messageChunks, idx, ghostVars, apiVars, decryptRet,
                   pagerVars>>

\* getLatestTextMessages, second await: the ledger check of the newest message
getLatestTextMessages(t, ok) ==
    /\ pc[t] = "syncCheck"
    /\ Outcome(ok)
    /\ LET isProcessed == isMessageProcessed(ledger[getMessageKey(Msg(t).msgid)], ok) IN
       /\ unprocessed' = [unprocessed EXCEPT ![t] =
                            IF isProcessed THEN <<>> ELSE <<Msg(t)>>]
       /\ pc' = [pc EXCEPT ![t] = IF isProcessed THEN "markCall" ELSE "check"]
    /\ lastGet' = [lastGet EXCEPT ![t] = GetOutcome(ledger[getMessageKey(Msg(t).msgid)], ok)]
    /\ ledgerFault' = [ledgerFault EXCEPT ![t] = @ \/ ~ok]
    /\ UNCHANGED <<ledger, ledgerExpiration, conv, convExpiration, clock, ack, sig,
                   doneBefore, envVars, latest, history, aiMessages, assistantMessage,
                   messageChunks, idx, sentLog, aiCalls, skipped, gwFailed, apiVars,
                   callVars, pagerVars>>

(***************************************************************************)
(* processUserMessage                                                      *)
(***************************************************************************)
\* variant: the generator is called before the user entry is appended
checkProcessed_generateFirst(t, ok) ==
    /\ pc[t] = "check"
    /\ Outcome(ok)
    /\ LET isProcessed == isMessageProcessed(ledger[getMessageKey(Msg(t).msgid)], ok) IN
       /\ pc' = [pc EXCEPT ![t] = IF isProcessed THEN "markCall" ELSE "chat"]
       /\ skipped' = [skipped EXCEPT ![t] = isProcessed]
    /\ lastGet' = [lastGet EXCEPT ![t] = GetOutcome(ledger[getMessageKey(Msg(t).msgid)], ok)]
    /\ ledgerFault' = [ledgerFault EXCEPT ![t] = @ \/ ~ok]
    /\ UNCHANGED <<ledger, ledgerExpiration, conv, convExpiration, clock, ack, sig,
                   doneBefore, envVars, localVars, sentLog, aiCalls, gwFailed, apiVars,
                   callVars, pagerVars>>

\* variant: the record is observed but processing goes on
checkProcessed_ignoreRecord(t, ok) ==
    /\ pc[t] = "check"
    /\ Outcome(ok)
    /\ pc' = [pc EXCEPT ![t] = "addUserRead"]
    /\ skipped' = [skipped EXCEPT ![t] =
                      isMessageProcessed(ledger[getMessageKey(Msg(t).msgid)], ok)]
    /\ lastGet' = [lastGet EXCEPT ![t] = GetOutcome(ledger[getMessageKey(Msg(t).msgid)], ok)]
    /\ ledgerFault' = [ledgerFault EXCEPT ![t] = @ \/ ~ok]
    /\ UNCHANGED <<ledger, ledgerExpiration, conv, convExpiration, clock, ack, sig,
                   doneBefore, envVars, localVars, sentLog, aiCalls, gwFailed, apiVars,
                   callVars, pagerVars>>

\* the ledger check at the head of processUserMessage
checkProcessed(t, ok) ==
    /\ pc[t] = "check"
    /\ Outcome(ok)
    /\ LET isProcessed == isMessageProcessed(ledger[getMessageKey(Msg(t).msgid)], ok) IN
       /\ pc' = [pc EXCEPT ![t] = IF isProcessed THEN "markCall" ELSE "addUserRead"]
       /\ skipped' = [skipped EXCEPT ![t] = isProcessed]
    /\ lastGet' = [lastGet EXCEPT ![t] = GetOutcome(ledger[getMessageKey(Msg(t).msgid)], ok)]
    /\ ledgerFault' = [ledgerFault EXCEPT ![t] = @ \/ ~ok]
    /\ UNCHANGED <<ledger, ledgerExpiration, conv, convExpiration, clock, ack, sig,
                   doneBefore, envVars, localVars, sentLog, aiCalls, gwFailed, apiVars,
                   callVars, pagerVars>>

\* variant: a failing read is rethrown and ends the try block
readHistory_rethrow(t, ok) ==
    /\ pc[t] \in {"addUserRead", "addAsstRead"}
    /\ Outcome(ok)
    /\ history' = [history EXCEPT ![t] =
                     IF ok THEN getConversationHistory(conv[Msg(t).external_userid], ok,
                                                       systemPrompt)
                     ELSE <<>>]
    /\ pc' = [pc EXCEPT ![t] = IF ~ok THEN "apology"
                               ELSE IF pc[t] = "addUserRead" THEN "addUserWrite"
                               ELSE "addAsstWrite"]
    /\ UNCHANGED <<ledger, ledgerExpiration, conv, convExpiration, clock, ack, sig,
                   doneBefore, envVars, latest, unprocessed, aiMessages, assistantMessage,
                   messageChunks, idx, ghostVars, apiVars, callVars, pagerVars>>

\* addUserMessage / addAssistantMessage, first await: getConversationHistory
readHistory(t, ok) ==
    /\ pc[t] \in {"addUserRead", "addAsstRead"}
    /\ Outcome(ok)
    /\ history' = [history EXCEPT ![t] =
                     getConversationHistory(conv[Msg(t).external_userid], ok, systemPrompt)]
    /\ pc' = [pc EXCEPT ![t] = IF pc[t] = "addUserRead" THEN "addUserWrite"
                                                         ELSE "addAsstWrite"]
    /\ UNCHANGED <<ledger, ledgerExpiration, conv, convExpiration, clock, ack, sig,
                   doneBefore, envVars, latest, unprocessed, aiMessages, assistantMessage,
                   messageChunks, idx, ghostVars, apiVars, callVars, pagerVars>>

\* variant: the entry is appended to the window stored at the time of the put
addUserMessage_onCurrent(t, ok) ==
    /\ pc[t] = "addUserWrite"
    /\ Outcome(ok)
    /\ LET saved == trimmedHistory(pushEntry(getConversationHistory(conv[Msg(t).external_userid], TRUE,
                                                                     systemPrompt),
                                             "user", Msg(t).content)) IN
       IF ok
       THEN /\ conv' = [conv EXCEPT ![Msg(t).external_userid] = saved]
            /\ convExpiration' = putExpiration(convExpiration, Msg(t).external_userid)
            /\ aiMessages' = [aiMessages EXCEPT ![t] = toAiMessages(saved)]
            /\ pc' = [pc EXCEPT ![t] = "chat"]
       ELSE /\ pc' = [pc EXCEPT ![t] = "apology"]
            /\ UNCHANGED <<conv, convExpiration, aiMessages>>
    /\ history' = [history EXCEPT ![t] = <<>>]
    /\ UNCHANGED <<ledger, ledgerExpiration, clock, ack, sig, doneBefore, envVars, latest,
                   unprocessed, assistantMessage, messageChunks, idx, ghostVars, apiVars,
                   callVars, pagerVars>>

\* conversationManager.processUserMessage: push the user entry, save, map
addUserMessage(t, ok) ==
    /\ pc[t] = "addUserWrite"
    /\ Outcome(ok)
    /\ LET saved == trimmedHistory(pushEntry(history[t], "user", Msg(t).content)) IN
       IF ok
       THEN /\ conv' = [conv EXCEPT ![Msg(t).external_userid] = saved]
            /\ convExpiration' = putExpiration(convExpiration, Msg(t).external_userid)
            /\ aiMessages' = [aiMessages EXCEPT ![t] = toAiMessages(saved)]
            /\ pc' = [pc EXCEPT ![t] = "chat"]
       ELSE /\ pc' = [pc EXCEPT ![t] = "apology"]
            /\ UNCHANGED <<conv, convExpiration, aiMessages>>
    /\ history' = [history EXCEPT ![t] = <<>>]
    /\ UNCHANGED <<ledger, ledgerExpiration, clock, ack, sig, doneBefore, envVars, latest,
                   unprocessed, assistantMessage, messageChunks, idx, ghostVars, apiVars,
                   callVars, pagerVars>>

\* aiClient.chatCompletion: a reply, or an error / empty reply
chatCompletion(t, ok, reply) ==
    /\ pc[t] = "chat"
    /\ Outcome(ok)
    /\ aiCalls' = [aiCalls EXCEPT ![t] = @ + 1]
    /\ IF ok /\ StrLen(reply) > 0
       THEN /\ assistantMessage' = [assistantMessage EXCEPT ![t] = <<reply>>]
            /\ pc' = [pc EXCEPT ![t] = "addAsstRead"]
       ELSE /\ pc' = [pc EXCEPT ![t] = "apology"]
            /\ UNCHANGED assistantMessage
    /\ aiMessages' = [aiMessages EXCEPT ![t] = <<>>]
    /\ UNCHANGED <<ledger, ledgerExpiration, conv, convExpiration, clock, ack, sig,
                   doneBefore, envVars, latest, unprocessed, history, messageChunks, idx,
                   sentLog, lastGet, skipped, gwFailed, ledgerFault, apiVars, callVars,
                   pagerVars>>

(***************************************************************************)
(* Reply dispatch (the tail of the try block of processUserMessage)        *)
(***************************************************************************)
Reply(t) == assistantMessage[t][1]

\* assistantMessage.length > messageChunkSize
IsLong(s) == StrLen(s) > messageChunkSize

\* the chunks the loop runs over
chunksOf(s) == splitStringByLength(Trim(s), messageChunkSize)

\* variant: only the chunk count triggers the file
isFileTurn_countOnly(i, n) == i + 1 = messageChunkCount

\* i + 1 === messageChunkCount || i === messageChunks.length - 1
isFileTurn(i, n) == i + 1 = messageChunkCount \/ i = n - 1

\* variant: the loop is left after its first iteration
afterIteration_once(i, n) == "markMsg"

\* where the loop stands once iteration i is over
afterIteration(i, n) == IF i + 1 < n THEN "dispatch" ELSE "markMsg"

\* variant: the assistant entry is not put before dispatch
addAssistantMessage_deferred(t, ok) ==
    /\ pc[t] = "addAsstWrite"
    /\ Outcome(ok)
    /\ LET chunks == IF IsLong(Reply(t)) THEN chunksOf(Reply(t)) ELSE <<>> IN
       IF ok
       THEN /\ messageChunks' = [messageChunks EXCEPT ![t] = chunks]
            /\ idx' = [idx EXCEPT ![t] = 0]
            /\ pc' = [pc EXCEPT ![t] =
                        IF IsLong(Reply(t)) /\ chunks = <<>> THEN "markMsg" ELSE "dispatch"]
       ELSE /\ pc' = [pc EXCEPT ![t] = "apology"]
            /\ UNCHANGED <<messageChunks, idx>>
    /\ history' = [history EXCEPT ![t] = <<>>]
    /\ UNCHANGED <<ledger, ledgerExpiration, conv, convExpiration, clock, ack, sig,
                   doneBefore, envVars, latest, unprocessed, aiMessages, assistantMessage,
                   ghostVars, apiVars, callVars, pagerVars>>

\* completeAssistantReply: push the assistant entry and save; then the
\* branch on the reply length and the split
addAssistantMessage(t, ok) ==
    /\ pc[t] = "addAsstWrite"
    /\ Outcome(ok)
    /\ LET saved == trimmedHistory(pushEntry(history[t], "assistant", Reply(t)))
           chunks == IF IsLong(Reply(t)) THEN chunksOf(Reply(t)) ELSE <<>>
       IN
       IF ok
       THEN /\ conv' = [conv EXCEPT ![Msg(t).external_userid] = saved]
            /\ convExpiration' = putExpiration(convExpiration, Msg(t).external_userid)
            /\ messageChunks' = [messageChunks EXCEPT ![t] = chunks]
            /\ idx' = [idx EXCEPT ![t] = 0]
            /\ pc' = [pc EXCEPT ![t] =
                        IF IsLong(Reply(t)) /\ chunks = <<>> THEN "markMsg" ELSE "dispatch"]
       ELSE /\ pc' = [pc EXCEPT ![t] = "apology"]
            /\ UNCHANGED <<conv, convExpiration, messageChunks, idx>>
    /\ history' = [history EXCEPT ![t] = <<>>]
    /\ UNCHANGED <<ledger, ledgerExpiration, clock, ack, sig, doneBefore, envVars, latest,
                   unprocessed, aiMessages, assistantMessage, ghostVars, apiVars,
                   callVars, pagerVars>>

\* variant: a failing text send is skipped and the loop goes on
sendTextMessage_goOn(t, ok) ==
    /\ pc[t] = "dispatch"
    /\ IsLong(Reply(t)) => ~isFileTurn(idx[t], Len(messageChunks[t]))
    /\ Outcome(ok)
    /\ LET text == IF IsLong(Reply(t)) THEN messageChunks[t][idx[t] + 1]
                                       ELSE Whole(Reply(t))
       IN
       IF ok
       THEN /\ sentLog' = [sentLog EXCEPT ![t] =
                             Append(@, [kind |-> "text", lo |-> text.lo, hi |-> text.hi])]
            /\ idx' = [idx EXCEPT ![t] = IF IsLong(Reply(t)) THEN @ + 1 ELSE @]
            /\ pc' = [pc EXCEPT ![t] =
                        IF IsLong(Reply(t))
                        THEN afterIteration(idx[t], Len(messageChunks[t]))
                        ELSE "markMsg"]
            /\ UNCHANGED gwFailed
       ELSE /\ gwFailed' = [gwFailed EXCEPT ![t] = TRUE]
            /\ idx' = [idx EXCEPT ![t] = IF IsLong(Reply(t)) THEN @ + 1 ELSE @]
            /\ pc' = [pc EXCEPT ![t] =
                        IF IsLong(Reply(t))
                        THEN afterIteration(idx[t], Len(messageChunks[t]))
                        ELSE "markMsg"]
            /\ UNCHANGED sentLog
    /\ UNCHANGED <<ledger, ledgerExpiration, conv, convExpiration, clock, ack, sig,
                   doneBefore, envVars, latest, unprocessed, history, aiMessages,
                   assistantMessage, messageChunks, aiCalls, lastGet, skipped,
                   ledgerFault, apiVars, callVars, pagerVars>>

\* wxClient.sendTextMessage of the whole reply or of chunk i
sendTextMessage(t, ok) ==
    /\ pc[t] = "dispatch"
    /\ IsLong(Reply(t)) => ~isFileTurn(idx[t], Len(messageChunks[t]))
    /\ Outcome(ok)
    /\ LET text == IF IsLong(Reply(t)) THEN messageChunks[t][idx[t] + 1]
                                       ELSE Whole(Reply(t))
       IN
       IF ok
       THEN /\ sentLog' = [sentLog EXCEPT ![t] =
                             Append(@, [kind |-> "text", lo |-> text.lo, hi |-> text.hi])]
            /\ idx' = [idx EXCEPT ![t] = IF IsLong(Reply(t)) THEN @ + 1 ELSE @]
            /\ pc' = [pc EXCEPT ![t] =
                        IF IsLong(Reply(t))
                        THEN afterIteration(idx[t], Len(messageChunks[t]))
                        ELSE "markMsg"]
            /\ UNCHANGED gwFailed
       ELSE /\ gwFailed' = [gwFailed EXCEPT ![t] = TRUE]
            /\ pc' = [pc EXCEPT ![t] = "apology"]
            /\ UNCHANGED <<sentLog, idx>>
    /\ UNCHANGED <<ledger, ledgerExpiration, conv, convExpiration, clock, ack, sig,
                   doneBefore, envVars, latest, unprocessed, history, aiMessages,
                   assistantMessage, messageChunks, aiCalls, lastGet, skipped,
                   ledgerFault, apiVars, callVars, pagerVars>>

\* wireNote, first await: uploadMedia of a file holding the whole reply
uploadMedia(t, ok) ==
    /\ pc[t] = "dispatch"
    /\ IsLong(Reply(t))
    /\ isFileTurn(idx[t], Len(messageChunks[t]))
    /\ Outcome(ok)
    /\ IF ok
       THEN /\ sentLog' = [sentLog EXCEPT ![t] =
                             Append(@, [kind |-> "upload", lo |-> Whole(Reply(t)).lo,
                                        hi |-> Whole(Reply(t)).hi])]
            /\ pc' = [pc EXCEPT ![t] = "sendFile"]
            /\ UNCHANGED gwFailed
       ELSE /\ gwFailed' = [gwFailed EXCEPT ![t] = TRUE]
            /\ pc' = [pc EXCEPT ![t] = "apology"]
            /\ UNCHANGED sentLog
    /\ UNCHANGED <<ledger, ledgerExpiration, conv, convExpiration, clock, ack, sig,
                   doneBefore, envVars, localVars, aiCalls, lastGet, skipped, ledgerFault,
                   apiVars, callVars, pagerVars>>

\* wireNote, second await: sendFileMessage with the uploaded media id
sendFileMessage(t, ok) ==
    /\ pc[t] = "sendFile"
    /\ Outcome(ok)
    /\ IF ok
       THEN /\ sentLog' = [sentLog EXCEPT ![t] =
                             Append(@, [kind |-> "file", lo |-> Whole(Reply(t)).lo,
                                        hi |-> Whole(Reply(t)).hi])]
            /\ idx' = [idx EXCEPT ![t] = @ + 1]
            /\ pc' = [pc EXCEPT ![t] = afterIteration(idx[t], Len(messageChunks[t]))]
            /\ UNCHANGED gwFailed
       ELSE /\ gwFailed' = [gwFailed EXCEPT ![t] = TRUE]
            /\ pc' = [pc EXCEPT ![t] = "apology"]
            /\ UNCHANGED <<sentLog, idx>>
    /\ UNCHANGED <<ledger, ledgerExpiration, conv, convExpiration, clock, ack, sig,
                   doneBefore, envVars, latest, unprocessed, history, aiMessages,
                   assistantMessage, messageChunks, aiCalls, lastGet, skipped,
                   ledgerFault, apiVars, callVars, pagerVars>>

\* markMessageAsProcessed(msgid, {..., success: true}) inside the try block
markSuccess(t, ok) ==
    /\ pc[t] = "markMsg"
    /\ Outcome(ok)
    /\ IF ok
       THEN /\ ledger' = markMessageAsProcessed(ledger, Msg(t).msgid,
                                                MsgMeta(Msg(t), Reply(t)))
            /\ ledgerExpiration' = putExpiration(ledgerExpiration, getMessageKey(Msg(t).msgid))
            /\ pc' = [pc EXCEPT ![t] = "markCall"]
       ELSE /\ pc' = [pc EXCEPT ![t] = "apology"]
            /\ UNCHANGED <<ledger, ledgerExpiration>>
    /\ ledgerFault' = [ledgerFault EXCEPT ![t] = @ \/ ~ok]
    /\ UNCHANGED <<conv, convExpiration, clock, ack, sig, doneBefore, envVars, localVars,
                   sentLog, aiCalls, lastGet, skipped, gwFailed, apiVars, callVars,
                   pagerVars>>

\* variant: the catch block sends nothing
sendApology_silent(t, ok) ==
    /\ pc[t] = "apology"
    /\ Outcome(ok)
    /\ gwFailed' = [gwFailed EXCEPT ![t] = @ \/ ~ok]
    /\ pc' = [pc EXCEPT ![t] = "markMsgFail"]
    /\ UNCHANGED <<ledger, ledgerExpiration, conv, convExpiration, clock, ack, sig,
                   doneBefore, envVars, localVars, sentLog, aiCalls, lastGet, skipped,
                   ledgerFault, apiVars, callVars, pagerVars>>

\* catch block: the apology is sent, a failing send is only logged
sendApology(t, ok) ==
    /\ pc[t] = "apology"
    /\ Outcome(ok)
    /\ IF ok
       THEN /\ sentLog' = [sentLog EXCEPT ![t] =
                             Append(@, [kind |-> "apology", lo |-> 0, hi |-> 0])]
            /\ UNCHANGED gwFailed
       ELSE /\ gwFailed' = [gwFailed EXCEPT ![t] = TRUE]
            /\ UNCHANGED sentLog
    /\ pc' = [pc EXCEPT ![t] = "markMsgFail"]
    /\ UNCHANGED <<ledger, ledgerExpiration, conv, convExpiration, clock, ack, sig,
                   doneBefore, envVars, localVars, aiCalls, lastGet, skipped, ledgerFault,
                   apiVars, callVars, pagerVars>>

\* variant: the catch block does not mark the message
markFailure_noRecord(t, ok) ==
    /\ pc[t] = "markMsgFail"
    /\ Outcome(ok)
    /\ pc' = [pc EXCEPT ![t] = IF ok THEN "markCall" ELSE "markCallFail"]
    /\ ledgerFault' = [ledgerFault EXCEPT ![t] = @ \/ ~ok]
    /\ callError' = [callError EXCEPT ![t] = IF ok THEN @ ELSE "ledger"]
    /\ UNCHANGED <<ledger, ledgerExpiration, conv, convExpiration, clock, ack, sig,
                   doneBefore, envVars, localVars, sentLog, aiCalls, lastGet, skipped,
                   gwFailed, apiVars, decryptRet, pagerVars>>

\* variant: the catch block marks the message and rethrows the error
markFailure_rethrow(t, ok) ==
    /\ pc[t] = "markMsgFail"
    /\ Outcome(ok)
    /\ IF ok
       THEN /\ ledger' = markMessageAsProcessed(ledger, Msg(t).msgid,
                                                ErrorMeta(Msg(t)))
            /\ ledgerExpiration' = putExpiration(ledgerExpiration, getMessageKey(Msg(t).msgid))
       ELSE UNCHANGED <<ledger, ledgerExpiration>>
    /\ pc' = [pc EXCEPT ![t] = "markCallFail"]
    /\ ledgerFault' = [ledgerFault EXCEPT ![t] = @ \/ ~ok]
    /\ callError' = [callError EXCEPT ![t] = "ledger"]
    /\ UNCHANGED <<conv, convExpiration, clock, ack, sig, doneBefore, envVars, localVars,
                   sentLog, aiCalls, lastGet, skipped, gwFailed, apiVars, decryptRet,
                   pagerVars>>

\* catch block: markMessageAsProcessed(msgid, {..., success: false})
markFailure(t, ok) ==
    /\ pc[t] = "markMsgFail"
    /\ Outcome(ok)
    /\ IF ok
       THEN /\ ledger' = markMessageAsProcessed(ledger, Msg(t).msgid,
                                                ErrorMeta(Msg(t)))
            /\ ledgerExpiration' = putExpiration(ledgerExpiration, getMessageKey(Msg(t).msgid))
            /\ pc' = [pc EXCEPT ![t] = "markCall"]
       ELSE /\ pc' = [pc EXCEPT ![t] = "markCallFail"]
            /\ UNCHANGED <<ledger, ledgerExpiration>>
    /\ ledgerFault' = [ledgerFault EXCEPT ![t] = @ \/ ~ok]
    /\ callError' = [callError EXCEPT ![t] = IF ok THEN @ ELSE "ledger"]
    /\ UNCHANGED <<conv, convExpiration, clock, ack, sig, doneBefore, envVars, localVars,
                   sentLog, aiCalls, lastGet, skipped, gwFailed, apiVars, decryptRet,
                   pagerVars>>

\* variant: the call-level record of a completed call says success: false
markCallback_asFailed(t, ok) ==
    /\ pc[t] = "markCall"
    /\ Outcome(ok)
    /\ IF ok
       THEN /\ ledger' = markMessageAsProcessed(ledger, sig[t], CallMeta(sig[t], FALSE))
            /\ ledgerExpiration' = putExpiration(ledgerExpiration, getMessageKey(sig[t]))
            /\ pc' = [pc EXCEPT ![t] = "done"]
       ELSE /\ pc' = [pc EXCEPT ![t] = "markCallFail"]
            /\ UNCHANGED <<ledger, ledgerExpiration>>
    /\ ledgerFault' = [ledgerFault EXCEPT ![t] = @ \/ ~ok]
    /\ callError' = [callError EXCEPT ![t] = IF ok THEN @ ELSE "ledger"]
    /\ UNCHANGED <<conv, convExpiration, clock, ack, sig, doneBefore, envVars, localVars,
                   sentLog, aiCalls, lastGet, skipped, gwFailed, apiVars, decryptRet,
                   pagerVars>>

\* handleCallbackAsync: markMessageAsProcessed(params.msgSignature, success: true)
markCallback(t, ok) ==
    /\ pc[t] = "markCall"
    /\ Outcome(ok)
    /\ IF ok
       THEN /\ ledger' = markMessageAsProcessed(ledger, sig[t], CallMeta(sig[t], TRUE))
            /\ ledgerExpiration' = putExpiration(ledgerExpiration, getMessageKey(sig[t]))
            /\ pc' = [pc EXCEPT ![t] = "done"]
       ELSE /\ pc' = [pc EXCEPT ![t] = "markCallFail"]
            /\ UNCHANGED <<ledger, ledgerExpiration>>
    /\ ledgerFault' = [ledgerFault EXCEPT ![t] = @ \/ ~ok]
    /\ callError' = [callError EXCEPT ![t] = IF ok THEN @ ELSE "ledger"]
    /\ UNCHANGED <<conv, convExpiration, clock, ack, sig, doneBefore, envVars, localVars,
                   sentLog, aiCalls, lastGet, skipped, gwFailed, apiVars, decryptRet,
                   pagerVars>>

\* variant: the catch block only logs
markCallbackFailed_noPut(t, ok) ==
    /\ pc[t] = "markCallFail"
    /\ Outcome(ok)
    /\ pc' = [pc EXCEPT ![t] = "done"]
    /\ ledgerFault' = [ledgerFault EXCEPT ![t] = @ \/ ~ok]
    /\ UNCHANGED <<ledger, ledgerExpiration, conv, convExpiration, clock, ack, sig,
                   doneBefore, envVars, localVars, sentLog, aiCalls, lastGet, skipped,
                   gwFailed, apiVars, callVars, pagerVars>>

\* handleCallbackAsync catch block: the call is marked failed; a failing
\* write here leaves the task promise rejected
markCallbackFailed(t, ok) ==
    /\ pc[t] = "markCallFail"
    /\ Outcome(ok)
    /\ IF ok
       THEN /\ ledger' = markMessageAsProcessed(ledger, sig[t], CallMeta(sig[t], FALSE))
            /\ ledgerExpiration' = putExpiration(ledgerExpiration, getMessageKey(sig[t]))
            /\ pc' = [pc EXCEPT ![t] = "done"]
       ELSE /\ pc' = [pc EXCEPT ![t] = "rejected"]
            /\ UNCHANGED <<ledger, ledgerExpiration>>
    /\ ledgerFault' = [ledgerFault EXCEPT ![t] = @ \/ ~ok]
    /\ UNCHANGED <<conv, convExpiration, clock, ack, sig, doneBefore, envVars, localVars,
                   sentLog, aiCalls, lastGet, skipped, gwFailed, apiVars, callVars,
                   pagerVars>>

(***************************************************************************)
(* Environment                                                             *)
(***************************************************************************)
\* a customer sends a message; send times grow with the arrival order, the
\* text of the k-th message is a string of k characters
Arrive(user, msgtype) ==
    /\ Len(mailbox) < MaxMsgs
    /\ mailbox = <<>> => user = "uA" /\ msgtype = "text"
    /\ mailbox' = Append(mailbox,
                         [msgid |-> Len(mailbox) + 1, msgtype |-> msgtype,
                          content |-> [lead |-> 0, core |-> Len(mailbox) + 1, trail |-> 0],
                          external_userid |-> user,
                          send_time |-> Len(mailbox) + 1])
    /\ UNCHANGED <<ledger, ledgerExpiration, conv, convExpiration, systemPrompt, clock,
                   pc, ack, sig, doneBefore, faults, localVars, ghostVars, apiVars,
                   callVars, pagerVars>>

\* the replies the generator returns in the orchestrator specification
Replies == {[lead |-> 0, core |-> 10, trail |-> 0],
            [lead |-> 0, core |-> 2 * messageChunkSize + 1, trail |-> 0]}

Next ==
    \/ \E t \in Tasks, s \in Sigs, valid \in BOOLEAN : handleCallback(t, s, valid)
    \/ \E t \in Tasks, ok \in BOOLEAN : decryptMsg(t, ok)
    \/ \E t \in Tasks, ok \in BOOLEAN : syncAllMessages(t, ok)
    \/ \E t \in Tasks, ok \in BOOLEAN : getLatestTextMessages(t, ok)
    \/ \E t \in Tasks, ok \in BOOLEAN : checkProcessed(t, ok)
    \/ \E t \in Tasks, ok \in BOOLEAN : readHistory(t, ok)
    \/ \E t \in Tasks, ok \in BOOLEAN : addUserMessage(t, ok)
    \/ \E t \in Tasks, ok \in BOOLEAN, r \in Replies \cup {[lead |-> 0, core |-> 0, trail |-> 0]} :
            chatCompletion(t, ok, r)
    \/ \E t \in Tasks, ok \in BOOLEAN : addAssistantMessage(t, ok)
    \/ \E t \in Tasks, ok \in BOOLEAN : sendTextMessage(t, ok)
    \/ \E t \in Tasks, ok \in BOOLEAN : uploadMedia(t, ok)
    \/ \E t \in Tasks, ok \in BOOLEAN : sendFileMessage(t, ok)
    \/ \E t \in Tasks, ok \in BOOLEAN : markSuccess(t, ok)
    \/ \E t \in Tasks, ok \in BOOLEAN : sendApology(t, ok)
    \/ \E t \in Tasks, ok \in BOOLEAN : markFailure(t, ok)
    \/ \E t \in Tasks, ok \in BOOLEAN : markCallback(t, ok)
    \/ \E t \in Tasks, ok \in BOOLEAN : markCallbackFailed(t, ok)
    \/ \E u \in Users, ty \in {"text", "image"} : Arrive(u, ty)

Spec == Init /\ [][Next]_vars

(***************************************************************************)
(* Sequential deliveries: a callback task starts only when no other task   *)
(* is running; the environment may inject more failures                    *)
(***************************************************************************)
InitSeq == Start(MaxSeqFaults)

Quiet == \A u \in Tasks : pc[u] \in Terminal \cup {"idle"}

NextSeq ==
    \/ \E t \in Tasks, s \in Sigs, valid \in BOOLEAN : Quiet /\ handleCallback(t, s, valid)
    \/ \E t \in Tasks, ok \in BOOLEAN : decryptMsg(t, ok)
    \/ \E t \in Tasks, ok \in BOOLEAN : syncAllMessages(t, ok)
    \/ \E t \in Tasks, ok \in BOOLEAN : getLatestTextMessages(t, ok)
    \/ \E t \in Tasks, ok \in BOOLEAN : checkProcessed(t, ok)
    \/ \E t \in Tasks, ok \in BOOLEAN : readHistory(t, ok)
    \/ \E t \in Tasks, ok \in BOOLEAN : addUserMessage(t, ok)
    \/ \E t \in Tasks, ok \in BOOLEAN, r \in Replies \cup {[lead |-> 0, core |-> 0, trail |-> 0]} :
            chatCompletion(t, ok, r)
    \/ \E t \in Tasks, ok \in BOOLEAN : addAssistantMessage(t, ok)
    \/ \E t \in Tasks, ok \in BOOLEAN : sendTextMessage(t, ok)
    \/ \E t \in Tasks, ok \in BOOLEAN : uploadMedia(t, ok)
    \/ \E t \in Tasks, ok \in BOOLEAN : sendFileMessage(t, ok)
    \/ \E t \in Tasks, ok \in BOOLEAN : markSuccess(t, ok)
    \/ \E t \in Tasks, ok \in BOOLEAN : sendApology(t, ok)
    \/ \E t \in Tasks, ok \in BOOLEAN : markFailure(t, ok)
    \/ \E t \in Tasks, ok \in BOOLEAN : markCallback(t, ok)
    \/ \E t \in Tasks, ok \in BOOLEAN : markCallbackFailed(t, ok)
    \/ \E u \in Users, ty \in {"text", "image"} : Arrive(u, ty)

SpecSeq == InitSeq /\ [][NextSeq]_vars

\* one step of the callback task t: the await it is suspended at settles
TaskStep(t) ==
    \/ \E ok \in BOOLEAN : decryptMsg(t, ok)
    \/ \E ok \in BOOLEAN : syncAllMessages(t, ok)
    \/ \E ok \in BOOLEAN : getLatestTextMessages(t, ok)
    \/ \E ok \in BOOLEAN : checkProcessed(t, ok)
    \/ \E ok \in BOOLEAN : readHistory(t, ok)
    \/ \E ok \in BOOLEAN : addUserMessage(t, ok)
    \/ \E ok \in BOOLEAN, r \in Replies \cup {[lead |-> 0, core |-> 0, trail |-> 0]} :
            chatCompletion(t, ok, r)
    \/ \E ok \in BOOLEAN : addAssistantMessage(t, ok)
    \/ \E ok \in BOOLEAN : sendTextMessage(t, ok)
    \/ \E ok \in BOOLEAN : uploadMedia(t, ok)
    \/ \E ok \in BOOLEAN : sendFileMessage(t, ok)
    \/ \E ok \in BOOLEAN : markSuccess(t, ok)
    \/ \E ok \in BOOLEAN : sendApology(t, ok)
    \/ \E ok \in BOOLEAN : markFailure(t, ok)
    \/ \E ok \in BOOLEAN : markCallback(t, ok)
    \/ \E ok \in BOOLEAN : markCallbackFailed(t, ok)

InitSeqFair == Start(MaxFairFaults)

\* sequential deliveries in which every awaited call eventually settles
\* (each fetch carries a timeout, each KV call resolves or rejects)
SpecSeqFair == InitSeqFair /\ [][NextSeq]_vars /\ \A t \in Tasks : WF_vars(TaskStep(t))

(***************************************************************************)
(* Properties of the orchestrator                                          *)
(***************************************************************************)
\* task t synced a mailbox whose newest message is the text message m
Handles(t, m) == latest[t] # <<>> /\ IsCandidate(Msg(t)) /\ Msg(t).msgid = m

IsApology(e) == e.kind = "apology"

\* outbound replies of one task: the AI reply (any text or file of it) and
\* each apology count as one
ReplyCount(t) ==
    (IF \E i \in 1..Len(sentLog[t]) : ~IsApology(sentLog[t][i]) THEN 1 ELSE 0)
    + Len(SelectSeq(sentLog[t], IsApology))

\* the second run starts after the first has finished, both see m as the
\* newest message, and no ledger access of either fails
SequentialRuns(t1, t2, m) ==
    /\ t1 # t2
    /\ t1 \in doneBefore[t2]
    /\ Handles(t1, m) /\ Handles(t2, m)
    /\ ~ledgerFault[t1] /\ ~ledgerFault[t2]

\* C1 as stated: two sequential runs on the same newest message m, with the
\* ledger reachable, send exactly one reply for m in total and the second
\* run sends nothing.
C1_ExactlyOneReply ==
    \A t1, t2 \in Tasks, m \in MsgIds :
        SequentialRuns(t1, t2, m) /\ pc[t2] \in Terminal =>
            /\ ReplyCount(t1) + ReplyCount(t2) = 1
            /\ sentLog[t2] = <<>>

\* C1 amended: under the same conditions the second run never invokes the
\* reply generator and sends nothing, so only the first run can reply to m.
C1_SecondRunSilent ==
    \A t1, t2 \in Tasks, m \in MsgIds :
        SequentialRuns(t1, t2, m) =>
            /\ sentLog[t2] = <<>>
            /\ aiCalls[t2] = 0
            /\ ledger[getMessageKey(m)] # <<>>

C1_Witness ==
    \E t1, t2 \in Tasks, m \in MsgIds :
        /\ SequentialRuns(t1, t2, m)
        /\ pc[t2] = "done"
        /\ sentLog[t1] # <<>>
        /\ aiCalls[t1] = 1

\* C2 as stated: when the syncs of two tasks both return the same
\* unprocessed message m, the reply generator runs at most once for m and at
\* most one of the tasks sends a reply.
C2_AtMostOnceConcurrent ==
    \A t1, t2 \in Tasks :
        (t1 # t2 /\ unprocessed[t1] # <<>> /\ unprocessed[t1] = unprocessed[t2]) =>
            /\ aiCalls[t1] + aiCalls[t2] <= 1
            /\ sentLog[t1] = <<>> \/ sentLog[t2] = <<>>

\* C3: every accepted POST /callback is answered 'success' as soon as the
\* task is handed over: the task stands before its first step (or anywhere
\* later, failed or not) and the response is already the fixed one.
C3_AckBeforeProcessing ==
    \A t \in Tasks :
        /\ pc[t] = "idle" => ack[t] = "none"
        /\ pc[t] = "refused" => ack[t] = "bad_request"
        /\ pc[t] \notin {"idle", "refused"} => ack[t] = "success"

\* one delivery acknowledged with its task not yet begun, another whose task
\* ended after a gateway failure, both answered alike
C3_Witness ==
    \E t, u \in Tasks :
        /\ pc[t] = "decrypt" /\ ack[t] = "success"
        /\ pc[u] = "done" /\ gwFailed[u] /\ ack[u] = "success"

\* C10: a failing ledger get makes isMessageProcessed answer false: the
\* synchronizer emits the message and processUserMessage does not skip it.
C10_FailOpen ==
    \A t \in Tasks :
        lastGet[t] = "error" =>
            /\ unprocessed[t] = <<Msg(t)>>
            /\ ~skipped[t]
            /\ pc[t] # "syncCheck"

C10_Witness ==
    \E t \in Tasks :
        /\ lastGet[t] = "error"
        /\ aiCalls[t] = 1

\* C11: getLatestTextMessages returns at most one message, and when it
\* returns one it is the message of the sync with the greatest send time;
\* a callback task invokes the reply generator at most once.
C11_AtMostOneNewest ==
    /\ [](\A t \in Tasks :
            /\ Len(unprocessed[t]) <= 1
            /\ unprocessed[t] # <<>> => unprocessed[t] = latest[t]
            /\ aiCalls[t] <= 1)
    /\ [][\A t \in Tasks :
            (pc[t] = "sync" /\ pc'[t] \in {"syncCheck", "markCall"} /\ mailbox # <<>>) =>
                /\ Len(latest'[t]) = 1
                /\ \E i \in 1..Len(mailbox) : latest'[t][1] = mailbox[i]
                /\ \A i \in 1..Len(mailbox) :
                      mailbox[i].send_time <= latest'[t][1].send_time]_vars

\* two unprocessed text messages in the mailbox, the later one returned
C11_Witness ==
    /\ Len(mailbox) = 2
    /\ IsCandidate(mailbox[1]) /\ IsCandidate(mailbox[2])
    /\ mailbox[2].send_time > mailbox[1].send_time
    /\ ledger[getMessageKey(mailbox[1].msgid)] = <<>>
    /\ ledger[getMessageKey(mailbox[2].msgid)] = <<>>
    /\ \E t \in Tasks : unprocessed[t] = <<mailbox[2]>> /\ aiCalls[t] = 1

\* the envelope of task t failed verification/decryption
DecryptFailed(t) == decryptRet[t] < 0

\* C12: a task whose decryptMsg returned ret # 0 has stopped there: it never
\* stood at the sync, holds no message, has called no ledger read and no reply
\* generator, has sent nothing, and the failing step wrote no store.
C12_DecryptFailureStops ==
    /\ [](\A t \in Tasks :
            DecryptFailed(t) =>
                /\ pc[t] = "done"
                /\ latest[t] = <<>> /\ unprocessed[t] = <<>>
                /\ lastGet[t] = "none"
                /\ aiCalls[t] = 0
                /\ sentLog[t] = <<>> /\ ~gwFailed[t])
    /\ [][\A t \in Tasks :
            (pc[t] = "decrypt" /\ DecryptFailed(t)') =>
                /\ pc'[t] = "done"
                /\ conv' = conv /\ ledger' = ledger /\ sentLog' = sentLog]_vars
    /\ [][\A t \in Tasks : pc[t] \in Terminal => pc'[t] = pc[t]]_vars

\* a failed verification with a text message waiting in the mailbox
C12_Witness ==
    \E t \in Tasks :
        /\ DecryptFailed(t) /\ pc[t] = "done"
        /\ mailbox # <<>> /\ IsCandidate(mailbox[Len(mailbox)])

\* C13 as stated: a task whose verification/decryption failed has written a
\* call-level ledger record under its signature, marked success = false,
\* by the time it stops.
C13_FailedCallRecorded ==
    \A t \in Tasks :
        DecryptFailed(t) /\ pc[t] \in Terminal =>
            /\ ledger[getMessageKey(sig[t])] # <<>>
            /\ ~ledger[getMessageKey(sig[t])][1].success

\* the call-level record of task t
CallRecord(t) == ledger[getMessageKey(sig[t])]

RepeatedDelivery(t1, t2) ==
    /\ t1 # t2
    /\ t1 \in doneBefore[t2]
    /\ sig[t1] = sig[t2]
    /\ pc[t1] = "done" /\ decryptRet[t1] = 0

\* C15 as stated: a repeated delivery of a call whose signature already has
\* a ledger record does nothing: no sync, no ledger read of a message, no
\* reply-generator call, no send.
C15_RepeatedCallNoOp ==
    \A t1, t2 \in Tasks :
        RepeatedDelivery(t1, t2) =>
            /\ pc[t2] \notin {"sync", "syncCheck"}
            /\ latest[t2] = <<>>
            /\ lastGet[t2] = "none"
            /\ aiCalls[t2] = 0
            /\ sentLog[t2] = <<>>

\* the reply generator failed or returned an empty reply in task t
GenerationFailed(t) == aiCalls[t] > 0 /\ assistantMessage[t] = <<>>

Apologies(t) == SelectSeq(sentLog[t], IsApology)

\* the message-level record of message id m
MsgRecord(m) == ledger[getMessageKey(m)]

\* the positions of a task after the catch block of processUserMessage
AfterCatch == {"markCall", "markCallFail", "done", "rejected"}

\* C16 as stated: after a failed or empty generation the apology is sent
\* exactly once, the message-level record is written with success = false,
\* and every later task that sees the message neither generates nor sends.
C16_ApologyExactlyOnce ==
    /\ \A t \in Tasks :
          GenerationFailed(t) /\ pc[t] \in AfterCatch =>
              /\ Len(Apologies(t)) = 1
              /\ MsgRecord(Msg(t).msgid) # <<>>
    /\ \A t1, t2 \in Tasks, m \in MsgIds :
          (t1 # t2 /\ t1 \in doneBefore[t2] /\ GenerationFailed(t1)
             /\ Handles(t1, m) /\ Handles(t2, m)) =>
              aiCalls[t2] = 0 /\ sentLog[t2] = <<>>

\* C16 amended: after a failed or empty generation nothing but the apology
\* is sent, at most once, and exactly once unless the apology send itself
\* failed; once the ledger write of the catch block has succeeded the
\* message-level record is there with success = false; a later task that
\* sees the message, no ledger access of either failing, neither generates
\* nor sends.
C16_ApologyUnlessSendFails ==
    /\ \A t \in Tasks :
          GenerationFailed(t) =>
              /\ sentLog[t] = Apologies(t)
              /\ Len(Apologies(t)) <= 1
              /\ (pc[t] # "apology" /\ ~gwFailed[t]) => Len(Apologies(t)) = 1
              /\ pc[t] = "markCall" =>
                    /\ MsgRecord(Msg(t).msgid) # <<>>
                    /\ ~MsgRecord(Msg(t).msgid)[1].success
              /\ (pc[t] \in AfterCatch /\ ~ledgerFault[t]) =>
                    MsgRecord(Msg(t).msgid) # <<>>
    /\ \A t1, t2 \in Tasks, m \in MsgIds :
          (SequentialRuns(t1, t2, m) /\ GenerationFailed(t1)) =>
              aiCalls[t2] = 0 /\ sentLog[t2] = <<>>

\* a failed generation answered by one apology and recorded as a failure,
\* and a later task that found the message processed
C16_Witness ==
    \E t1, t2 \in Tasks, m \in MsgIds :
        /\ SequentialRuns(t1, t2, m) /\ GenerationFailed(t1)
        /\ Len(Apologies(t1)) = 1
        /\ ~MsgRecord(m)[1].success
        /\ pc[t2] = "done" /\ lastGet[t2] = "hit"

\* C17: a failing gateway send always leads into the catch block, whose
\* ledger write, when it succeeds, leaves the message-level record (with
\* success = false); records are never removed; a later task that sees the
\* message, no ledger access of either failing, does not dispatch it again.
C17_SendFailureStillRecorded ==
    /\ [](\A t \in Tasks :
            gwFailed[t] => pc[t] \in {"apology", "markMsgFail"} \cup AfterCatch)
    /\ [][\A t \in Tasks :
            (pc[t] = "markMsgFail" /\ pc'[t] # "markMsgFail" /\ faults' = faults) =>
                /\ pc'[t] = "markCall"
                /\ ledger'[getMessageKey(Msg(t).msgid)] # <<>>
                /\ ~ledger'[getMessageKey(Msg(t).msgid)][1].success]_vars
    /\ [][\A k \in Keys : ledger[k] # <<>> => ledger'[k] # <<>>]_vars
    /\ [](\A t1, t2 \in Tasks, m \in MsgIds :
            (SequentialRuns(t1, t2, m) /\ gwFailed[t1]) =>
                aiCalls[t2] = 0 /\ sentLog[t2] = <<>>)

\* a dispatch that failed after its first chunk, recorded as a failure, and
\* a later task that found the message processed
C17_Witness ==
    \E t1, t2 \in Tasks, m \in MsgIds :
        /\ SequentialRuns(t1, t2, m)
        /\ gwFailed[t1] /\ assistantMessage[t1] # <<>>
        /\ Len(sentLog[t1]) >= 1 /\ sentLog[t1][1].kind = "text"
        /\ ~MsgRecord(m)[1].success
        /\ pc[t2] = "done" /\ lastGet[t2] = "hit"

\* the remote sync of task t failed
SyncFailed(t) == callError[t] = "sync"

\* C18: a task whose sync failed holds no message, has read no ledger entry,
\* has called no reply generator and has sent nothing; none of its steps
\* writes the conversation store or a message-level ledger record; so a later
\* delivery that syncs the message does not find it processed on its account.
C18_SyncFailureFrame ==
    /\ [](\A t \in Tasks :
            SyncFailed(t) =>
                /\ pc[t] \in {"markCallFail", "done", "rejected"}
                /\ latest[t] = <<>> /\ unprocessed[t] = <<>>
                /\ lastGet[t] = "none"
                /\ aiCalls[t] = 0
                /\ sentLog[t] = <<>>)
    /\ [][\A t \in Tasks :
            (pc'[t] # pc[t] /\ SyncFailed(t)') =>
                /\ conv' = conv
                /\ \A m \in MsgIds : ledger'[getMessageKey(m)] = ledger[getMessageKey(m)]]_vars
    /\ [](\A t1, t2 \in Tasks, m \in MsgIds :
            (t1 # t2 /\ t1 \in doneBefore[t2] /\ SyncFailed(t1) /\ Handles(t2, m)
               /\ \A u \in Tasks \ {t1, t2} : pc[u] = "idle") =>
                lastGet[t2] # "hit" /\ ~skipped[t2])

\* a delivery whose sync failed, and a later delivery that answered the message
C18_Witness ==
    \E t1, t2 \in Tasks, m \in MsgIds :
        /\ t1 \in doneBefore[t2] /\ SyncFailed(t1) /\ pc[t1] = "done"
        /\ Handles(t2, m) /\ pc[t2] = "done"
        /\ aiCalls[t2] = 1 /\ sentLog[t2] # <<>> /\ Apologies(t2) = <<>>
        /\ MsgRecord(m) # <<>> /\ MsgRecord(m)[1].success

\* C19 as stated: whatever fails, handleCallbackAsync never ends with an
\* uncaught rejection.
C19_NoUncaughtRejection ==
    \A t \in Tasks : pc[t] # "rejected"

\* C20 as stated: a task sends at most one apology, and when it sends the
\* apology it has sent no text chunk and no file of the AI reply.
C20_ReplyOrApology ==
    \A t \in Tasks :
        /\ Len(Apologies(t)) <= 1
        /\ Apologies(t) # <<>> => sentLog[t] = Apologies(t)

(***************************************************************************)
(* Dispatch of arbitrary replies: one task, no collaborator fails, the     *)
(* generator returns any reply of the bounded family                       *)
(***************************************************************************)
CoreLengths ==
    {n \in {k * messageChunkSize + d : k \in 0..MaxChunks, d \in {-1, 0, 1}} : n >= 0}

DispatchReplies ==
    [lead : 0..MaxPad, core : CoreLengths, trail : 0..MaxPad]

InitDispatch == Start(0)

NextDispatch ==
    \/ handleCallback(1, 101, TRUE)
    \/ decryptMsg(1, TRUE)
    \/ syncAllMessages(1, TRUE)
    \/ getLatestTextMessages(1, TRUE)
    \/ checkProcessed(1, TRUE)
    \/ readHistory(1, TRUE)
    \/ addUserMessage(1, TRUE)
    \/ \E r \in DispatchReplies : chatCompletion(1, TRUE, r)
    \/ addAssistantMessage(1, TRUE)
    \/ sendTextMessage(1, TRUE)
    \/ uploadMedia(1, TRUE)
    \/ sendFileMessage(1, TRUE)
    \/ markSuccess(1, TRUE)
    \/ sendApology(1, TRUE)
    \/ markFailure(1, TRUE)
    \/ markCallback(1, TRUE)
    \/ Arrive("uA", "text")

SpecDispatch == InitDispatch /\ [][NextDispatch]_vars

(***************************************************************************)
(* Properties of the dispatch                                              *)
(***************************************************************************)
IsText(e) == e.kind = "text"
IsUpload(e) == e.kind = "upload"
IsFile(e) == e.kind = "file"

Texts(t) == SelectSeq(sentLog[t], IsText)
Uploads(t) == SelectSeq(sentLog[t], IsUpload)
Files(t) == SelectSeq(sentLog[t], IsFile)

\* the dispatch loop of task t has run to its end without an error
Dispatched(t) ==
    /\ assistantMessage[t] # <<>>
    /\ pc[t] \in {"markMsg", "markCall", "done"}
    /\ ~gwFailed[t]

NoString == [lo |-> -1, hi |-> -1]

\* the string obtained by concatenating the slices, when they join up
RECURSIVE Concat(_)
Concat(texts) ==
    IF texts = <<>> THEN [lo |-> 0, hi |-> 0]
    ELSE IF Len(texts) = 1 THEN [lo |-> texts[1].lo, hi |-> texts[1].hi]
    ELSE LET rest == Concat(Tail(texts)) IN
         IF rest # NoString /\ texts[1].hi = rest.lo
         THEN [lo |-> texts[1].lo, hi |-> rest.hi]
         ELSE NoString

\* two slices of the same reply are the same string
SameString(a, b) == (SliceLen(a) = 0 /\ SliceLen(b) = 0) \/ (a.lo = b.lo /\ a.hi = b.hi)

TrimLen(s) == s.core

\* number of pieces of at most messageChunkSize characters s.trim() falls into
NumChunks(s) == (TrimLen(s) + messageChunkSize - 1) \div messageChunkSize

\* length of the last of those pieces
LastChunkLen(s) ==
    IF TrimLen(s) = 0 THEN 0 ELSE ((TrimLen(s) - 1) % messageChunkSize) + 1

\* C7 as stated: for a reply of at most 4 * chunkSize characters the texts
\* sent, concatenated in send order, are the trimmed reply.
C7_ChunkReconstruction ==
    \A t \in Tasks :
        Dispatched(t) /\ StrLen(Reply(t)) <= 4 * messageChunkSize =>
            SameString(Concat(Texts(t)), Trim(Reply(t)))

\* C7 amended: a reply of at most chunkSize characters is sent as one text
\* equal to the reply itself, untrimmed; for a longer reply of at most
\* 4 * chunkSize characters the texts concatenate to the trimmed reply
\* without its last chunk.
C7_TextsArePrefix ==
    \A t \in Tasks :
        Dispatched(t) /\ StrLen(Reply(t)) <= 4 * messageChunkSize =>
            IF StrLen(Reply(t)) <= messageChunkSize
            THEN Texts(t) = <<[kind |-> "text", lo |-> 0, hi |-> StrLen(Reply(t))]>>
            ELSE SameString(Concat(Texts(t)),
                            [lo |-> Reply(t).lead,
                             hi |-> Reply(t).lead + TrimLen(Reply(t)) - LastChunkLen(Reply(t))])

C7_Witness ==
    \E t \in Tasks :
        /\ Dispatched(t)
        /\ StrLen(Reply(t)) <= 4 * messageChunkSize
        /\ Reply(t).lead > 0 /\ Reply(t).trail > 0
        /\ Len(Texts(t)) = 3

\* C8 as stated: a reply that splits into 5 or more chunks is dispatched as
\* exactly 4 texts, one upload and one send-as-file, the file holding the
\* whole reply (trimmed or not).
C8_OverflowToFile ==
    \A t \in Tasks :
        Dispatched(t) /\ NumChunks(Reply(t)) >= messageChunkCount =>
            /\ Len(Texts(t)) = messageChunkCount - 1
            /\ Len(Uploads(t)) = 1
            /\ Len(Files(t)) = 1
            /\ \A i \in 1..Len(Uploads(t)) :
                  \/ SameString(Uploads(t)[i], Trim(Reply(t)))
                  \/ SameString(Uploads(t)[i], Whole(Reply(t)))

\* C9 as stated: a reply that splits into 1 to 4 chunks has every chunk
\* sent as text and no upload and no send-as-file.
C9_AllChunksAsText ==
    \A t \in Tasks :
        Dispatched(t) /\ NumChunks(Reply(t)) \in 1..(messageChunkCount - 1) =>
            /\ Len(Texts(t)) = NumChunks(Reply(t))
            /\ Uploads(t) = <<>>
            /\ Files(t) = <<>>

\* C9 amended: a reply of at most chunkSize characters is sent as one text
\* and no file; a longer reply that splits into 1 to 4 chunks has all chunks
\* but the last sent as text, then one upload and one send-as-file.
C9_LastChunkAsFile ==
    \A t \in Tasks :
        Dispatched(t) /\ NumChunks(Reply(t)) \in 1..(messageChunkCount - 1) =>
            IF StrLen(Reply(t)) <= messageChunkSize
            THEN Len(Texts(t)) = 1 /\ Uploads(t) = <<>> /\ Files(t) = <<>>
            ELSE /\ Len(Texts(t)) = NumChunks(Reply(t)) - 1
                 /\ Len(Uploads(t)) = 1
                 /\ Len(Files(t)) = 1
                 /\ sentLog[t][Len(sentLog[t])].kind = "file"
                 /\ sentLog[t][Len(sentLog[t]) - 1].kind = "upload"

C9_Witness ==
    \E t \in Tasks :
        /\ Dispatched(t)
        /\ NumChunks(Reply(t)) = 3
        /\ Len(Texts(t)) = 2
        /\ Len(Files(t)) = 1

(***************************************************************************)
(* Sequential use of one ConversationManager (maxHistoryLength 10) over a  *)
(* working store: calls run one after another, the system prompt of the    *)
(* deployment may change between calls                                     *)
(***************************************************************************)
AppendCap(u) == IF u = "uA" THEN MaxAppends ELSE MaxOtherAppends

\* addUserMessage / addAssistantMessage: read, push, trim, put
addMessage(u, role) ==
    /\ Len(appended[u]) < AppendCap(u)
    /\ LET content == Len(appended[u]) + 1
           h == pushEntry(getConversationHistory(conv[u], TRUE, systemPrompt), role, content)
       IN /\ conv' = [conv EXCEPT ![u] = trimmedHistory(h)]
          /\ convExpiration' = putExpiration(convExpiration, u)
          /\ ret' = trimmedHistory(h)
          /\ appended' = [appended EXCEPT ![u] = Append(@, h[Len(h)])]
    /\ apc' = [op |-> "add", user |-> u]
    /\ UNCHANGED <<mailbox, ledger, ledgerExpiration, systemPrompt, clock, pc, ack, sig,
                   doneBefore, faults, localVars, ghostVars, callVars, pagerVars>>

\* getConversationHistory called on its own
getWindow(u) ==
    /\ ret' = getConversationHistory(conv[u], TRUE, systemPrompt)
    /\ apc' = [op |-> "get", user |-> u]
    /\ UNCHANGED <<mailbox, ledger, ledgerExpiration, conv, convExpiration, systemPrompt,
                   clock, pc, ack, sig, doneBefore, faults, localVars, ghostVars,
                   callVars, appended, pagerVars>>

\* the deployment is reconfigured with another SYSTEM_PROMPT
setSystemPrompt(p) ==
    /\ p # systemPrompt
    /\ systemPrompt' = p
    /\ apc' = [op |-> "config", user |-> apc.user]
    /\ ret' = <<>>
    /\ UNCHANGED <<mailbox, ledger, ledgerExpiration, conv, convExpiration, clock, pc,
                   ack, sig, doneBefore, faults, localVars, ghostVars, callVars, appended,
                   pagerVars>>

InitConv == Start(0)

NextConv ==
    \/ \E u \in Users, role \in {"user", "assistant"} : addMessage(u, role)
    \/ \E u \in Users : getWindow(u)
    \/ \E p \in Prompts : setSystemPrompt(p)

SpecConv == InitConv /\ [][NextConv]_vars

(***************************************************************************)
(* Properties of the conversation window                                   *)
(***************************************************************************)
NotSystem(e) == e.role # "system"

\* the last k elements of a sequence
LastOf(q, k) == [i \in 1..Min(k, Len(q)) |-> q[Len(q) - Min(k, Len(q)) + i]]

\* C4: the stored window never exceeds 1 + maxHistoryLength entries, and a
\* read after more than maxHistoryLength appends returns exactly
\* 1 + maxHistoryLength entries, the first of role system.
C4_WindowCap ==
    /\ \A u \in Users : Len(conv[u]) <= 1 + maxHistoryLength
    /\ apc.op = "get" /\ Len(appended[apc.user]) > maxHistoryLength =>
          /\ Len(ret) = 1 + maxHistoryLength
          /\ ret[1].role = "system"

C4_Witness ==
    /\ apc.op = "get"
    /\ Len(appended[apc.user]) = maxHistoryLength + 1
    /\ Len(ret) = 1 + maxHistoryLength

\* C5: the non-system entries of the stored window are the last
\* min(n, maxHistoryLength) appended entries in append order, and the system
\* entry stays at the head.
C5_FifoEviction ==
    \A u \in Users :
        conv[u] # <<>> =>
            /\ conv[u][1].role = "system"
            /\ SelectSeq(conv[u], NotSystem) = LastOf(appended[u], maxHistoryLength)

C5_Witness ==
    \E u \in Users :
        /\ Len(appended[u]) = maxHistoryLength + 1
        /\ conv[u][2].content = 2
        /\ conv[u][1 + maxHistoryLength].content = maxHistoryLength + 1

\* C6: a read returns the current system prompt as entry 0, followed by the
\* stored non-system entries unchanged; the stored system entry, written
\* under whatever prompt, is not among them.
C6_PreambleFreshness ==
    apc.op = "get" =>
        /\ ret[1] = [role |-> "system", content |-> systemPrompt]
        /\ Tail(ret) = SelectSeq(conv[apc.user], NotSystem)
        /\ \A i \in 2..Len(ret) : ret[i].role # "system"

C6_Witness ==
    /\ apc.op = "get"
    /\ conv[apc.user] # <<>>
    /\ conv[apc.user][1].content = "P1"
    /\ systemPrompt = "P2"
    /\ Len(ret) > 2

(***************************************************************************)
(* Direct use of one MessageTracker and one ConversationManager over a     *)
(* store whose calls may fail, while time passes: calls run one after      *)
(* another, entries expire expirationTtl after their last put              *)
(***************************************************************************)
MaxTicks == 3

\* half an expirationTtl passes; the KV no longer returns the entries whose
\* expiration has been reached
Tick ==
    /\ clock < MaxTicks * (expirationTtl \div 2)
    /\ clock' = clock + expirationTtl \div 2
    /\ ledger' = [k \in Keys |-> IF ledgerExpiration[k] <= clock' THEN <<>> ELSE ledger[k]]
    /\ ledgerExpiration' = [k \in Keys |->
                              IF ledgerExpiration[k] <= clock' THEN 0 ELSE ledgerExpiration[k]]
    /\ conv' = [u \in Users |-> IF convExpiration[u] <= clock' THEN <<>> ELSE conv[u]]
    /\ convExpiration' = [u \in Users |->
                            IF convExpiration[u] <= clock' THEN 0 ELSE convExpiration[u]]
    /\ apc' = [op |-> "tick", user |-> apc.user]
    /\ ret' = <<>>
    /\ UNCHANGED <<mailbox, systemPrompt, pc, ack, sig, doneBefore, faults, localVars,
                   ghostVars, callVars, appended, pagerVars>>

\* getConversationHistory called on its own; ok is whether kv.get and
\* JSON.parse both succeed
readWindow(u, ok) ==
    /\ ret' = getConversationHistory(conv[u], ok, systemPrompt)
    /\ apc' = [op |-> IF ok THEN "get" ELSE "getFailed", user |-> u]
    /\ UNCHANGED <<mailbox, ledger, ledgerExpiration, conv, convExpiration, systemPrompt,
                   clock, pc, ack, sig, doneBefore, faults, localVars, ghostVars,
                   callVars, appended, pagerVars>>

\* the filter(...).length of getConversationStats
CountRole(h, role) == Cardinality({i \in 1..Len(h) : h[i].role = role})

\* the object getConversationStats returns for a window h; lastActivity
\* is -1 for null
ConversationStats(h) ==
    [totalMessages |-> Len(h) - 1,
     userMessages |-> CountRole(h, "user"),
     assistantMessages |-> CountRole(h, "assistant"),
     lastActivity |-> IF Len(h) > 1 THEN h[Len(h)].timestamp ELSE -1]

\* variant: the window that was read is saved back
getConversationStats_refresh(u, ok) ==
    /\ LET h == getConversationHistory(conv[u], ok, systemPrompt) IN
       /\ ret' = <<ConversationStats(h)>>
       /\ conv' = [conv EXCEPT ![u] = trimmedHistory(h)]
       /\ convExpiration' = putExpiration(convExpiration, u)
    /\ apc' = [op |-> "stats", user |-> u, failed |-> ~ok]
    /\ UNCHANGED <<mailbox, ledger, ledgerExpiration, systemPrompt,
                   clock, pc, ack, sig, doneBefore, faults, localVars, ghostVars,
                   callVars, appended, pagerVars>>

\* getConversationStats: read the window, count; nothing is put
getConversationStats(u, ok) ==
    /\ ret' = <<ConversationStats(getConversationHistory(conv[u], ok, systemPrompt))>>
    /\ apc' = [op |-> "stats", user |-> u, failed |-> ~ok]
    /\ UNCHANGED <<mailbox, ledger, ledgerExpiration, conv, convExpiration, systemPrompt,
                   clock, pc, ack, sig, doneBefore, faults, localVars, ghostVars,
                   callVars, appended, pagerVars>>

\* markMessageAsProcessed called on its own: the put either happens or its
\* error is rethrown; replaced tells whether the id had a record before
markCall(msgId, metadata, ok) ==
    /\ IF ok
       THEN /\ ledger' = markMessageAsProcessed(ledger, msgId, metadata)
            /\ ledgerExpiration' = putExpiration(ledgerExpiration, getMessageKey(msgId))
       ELSE UNCHANGED <<ledger, ledgerExpiration>>
    /\ apc' = [op |-> "mark", user |-> apc.user, msgId |-> msgId,
               metadata |-> metadata, threw |-> ~ok,
               replaced |-> ledger[getMessageKey(msgId)] # <<>>]
    /\ ret' = <<>>
    /\ UNCHANGED <<mailbox, conv, convExpiration, systemPrompt, clock, pc, ack, sig,
                   doneBefore, faults, localVars, ghostVars, callVars, appended,
                   pagerVars>>

\* the id lists handed to checkMultipleMessages: distinct ids in some order
IdLists == {<<>>} \cup {<<a>> : a \in MsgIds}
           \cup {<<p[1], p[2]>> : p \in {q \in MsgIds \X MsgIds : q[1] # q[2]}}

\* variant: one failing read makes the whole map false
checkMultipleMessages_allOrNothing(msgIds, failing) ==
    /\ ret' = [i \in 1..Len(msgIds) |->
                 [msgId |-> msgIds[i],
                  processed |-> IF \E j \in 1..Len(msgIds) : msgIds[j] \in failing
                                THEN FALSE
                                ELSE ledger[getMessageKey(msgIds[i])] # <<>>]]
    /\ apc' = [op |-> "check", user |-> apc.user, msgIds |-> msgIds,
               failing |-> failing, threw |-> FALSE]
    /\ UNCHANGED <<mailbox, ledger, ledgerExpiration, conv, convExpiration, systemPrompt,
                   clock, pc, ack, sig, doneBefore, faults, localVars, ghostVars,
                   callVars, appended, pagerVars>>

\* checkMultipleMessages: one isMessageProcessed per id, gathered by
\* Promise.all into {msgId, processed} pairs; failing are the ids whose
\* kv.get throws. isMessageProcessed catches its own error, so Promise.all
\* never rejects and the outer catch never runs
checkMultipleMessages(msgIds, failing) ==
    /\ ret' = [i \in 1..Len(msgIds) |->
                 [msgId |-> msgIds[i],
                  processed |-> isMessageProcessed(ledger[getMessageKey(msgIds[i])],
                                                   msgIds[i] \notin failing)]]
    /\ apc' = [op |-> "check", user |-> apc.user, msgIds |-> msgIds,
               failing |-> failing, threw |-> FALSE]
    /\ UNCHANGED <<mailbox, ledger, ledgerExpiration, conv, convExpiration, systemPrompt,
                   clock, pc, ack, sig, doneBefore, faults, localVars, ghostVars,
                   callVars, appended, pagerVars>>

InitKv == Start(0)

NextKv ==
    \/ \E role \in {"user", "assistant"} : addMessage("uB", role)
    \/ \E u \in Users, ok \in BOOLEAN : readWindow(u, ok)
    \/ \E u \in Users, ok \in BOOLEAN : getConversationStats(u, ok)
    \/ \E p \in Prompts : setSystemPrompt(p)
    \/ \E id \in MsgIds, success \in BOOLEAN, ok \in BOOLEAN :
          markCall(id, [success |-> success], ok)
    \/ \E ids \in IdLists : \E failing \in SUBSET MsgIds :
          checkMultipleMessages(ids, failing)
    \/ Tick

SpecKv == InitKv /\ [][NextKv]_vars

\* C21: getConversationHistory never throws: a read whose kv.get or
\* JSON.parse fails returns a window of exactly one entry, the system entry
\* carrying the current system prompt, whatever the store holds.
C21_FailedReadYieldsPreamble ==
    apc.op = "getFailed" =>
        /\ Len(ret) = 1
        /\ ret[1] = SystemEntry(systemPrompt)

C21_Witness ==
    /\ apc.op = "getFailed"
    /\ Len(conv[apc.user]) = 2
    /\ conv[apc.user][1].content # systemPrompt
    /\ ret = <<SystemEntry(systemPrompt)>>

\* C22: markMessageAsProcessed is idempotent per id: a call whose put
\* succeeds leaves under that id exactly the record built from this call's
\* metadata and the current time, expiring a full expirationTtl from now,
\* whether or not the id had a record before, and leaves every other id as
\* it was; a call whose put fails changes nothing and throws.
C22_RemarkOverwrites ==
    [][apc'.op = "mark" =>
         LET k == getMessageKey(apc'.msgId) IN
         IF apc'.threw
         THEN ledger' = ledger /\ ledgerExpiration' = ledgerExpiration
         ELSE /\ ledger'[k] = <<apc'.metadata @@ [msgId |-> apc'.msgId, timestamp |-> clock]>>
              /\ ledgerExpiration'[k] = clock + expirationTtl
              /\ \A j \in Keys \ {k} :
                    ledger'[j] = ledger[j] /\ ledgerExpiration'[j] = ledgerExpiration[j]]_vars

\* a record is replaced, at a later time, next to an older record of another id
C22_Witness ==
    /\ apc.op = "mark"
    /\ apc.replaced
    /\ ~apc.threw
    /\ clock > 0
    /\ ledger[getMessageKey(apc.msgId)][1].success = FALSE
    /\ \E j \in MsgIds \ {apc.msgId} :
          /\ ledger[getMessageKey(j)] # <<>>
          /\ ledger[getMessageKey(j)][1].timestamp < clock

\* C23: checkMultipleMessages answers with one {msgId, processed} pair per
\* requested id, in request order: processed is false for an id whose
\* ledger read failed and is the presence of a record for every other id;
\* the call itself never throws, whichever reads fail.
C23_OneAnswerPerId ==
    apc.op = "check" =>
        /\ ~apc.threw
        /\ Len(ret) = Len(apc.msgIds)
        /\ \A i \in 1..Len(ret) :
              /\ ret[i].msgId = apc.msgIds[i]
              /\ ret[i].processed =
                    IF apc.msgIds[i] \in apc.failing THEN FALSE
                    ELSE ledger[getMessageKey(apc.msgIds[i])] # <<>>

\* two recorded ids are asked for, the read of one of them fails
C23_Witness ==
    /\ apc.op = "check"
    /\ Len(ret) = 2
    /\ Cardinality(apc.failing) = 1
    /\ \A i \in 1..2 : ledger[getMessageKey(ret[i].msgId)] # <<>>
    /\ \E i \in 1..2 : ret[i].processed
    /\ \E i \in 1..2 : ~ret[i].processed

\* C24: getConversationStats never writes: across the call the stored
\* window of every user and its expiration are the same, whether the
\* store read succeeds or fails.
C24_StatsWritesNothing ==
    [][apc'.op = "stats" => conv' = conv /\ convExpiration' = convExpiration]_vars

\* statistics of a stored window are taken, half a TTL or more after it
\* was written, with the store read failing
C24_Witness ==
    /\ apc.op = "stats"
    /\ apc.failed
    /\ Len(conv[apc.user]) = 2
    /\ convExpiration[apc.user] < clock + expirationTtl
    /\ ret[1].totalMessages = 0

(***************************************************************************)
(* syncAllMessages against an arbitrary remote mailbox: every call of      *)
(* syncMessages may answer with any page and any next cursor, or fail      *)
(***************************************************************************)
MaxPages == 4

\* next_cursor values: 0 for an absent, null or empty cursor
Cursors == 0..2

\* msg_list values, messages identified by their ids; <<>> also stands for
\* an absent msg_list, which the code replaces by []
Pages == {<<>>} \cup {<<a>> : a \in MsgIds} \cup {<<p[1], p[2]>> : p \in MsgIds \X MsgIds}

\* variant: an empty page does not end the loop
syncMessages_ignoreEmptyPage(msgList, nextCursor, ok) ==
    /\ syncPc = "loop"
    /\ Len(requests) < MaxPages
    /\ requests' = Append(requests, [cursor |-> cursor, msg_list |-> msgList,
                                     next_cursor |-> nextCursor, ok |-> ok])
    /\ IF ok
       THEN /\ allMessages' = allMessages \o msgList
            /\ cursor' = nextCursor
            /\ syncPc' = IF nextCursor = 0 THEN "returned" ELSE "loop"
       ELSE /\ syncPc' = "threw"
            /\ UNCHANGED <<allMessages, cursor>>
    /\ UNCHANGED <<mailbox, ledger, ledgerExpiration, conv, convExpiration, systemPrompt,
                   clock, pc, ack, sig, doneBefore, faults, localVars, ghostVars,
                   callVars, apiVars>>

\* one iteration of the while (true) of syncAllMessages: the syncMessages
\* call with the current cursor, the push of its msg_list, the cursor
\* update and the break test; a failing call rejects syncAllMessages
syncMessages(msgList, nextCursor, ok) ==
    /\ syncPc = "loop"
    /\ Len(requests) < MaxPages
    /\ requests' = Append(requests, [cursor |-> cursor, msg_list |-> msgList,
                                     next_cursor |-> nextCursor, ok |-> ok])
    /\ IF ok
       THEN /\ allMessages' = allMessages \o msgList
            /\ cursor' = nextCursor
            /\ syncPc' = IF nextCursor = 0 \/ Len(msgList) = 0 THEN "returned" ELSE "loop"
       ELSE /\ syncPc' = "threw"
            /\ UNCHANGED <<allMessages, cursor>>
    /\ UNCHANGED <<mailbox, ledger, ledgerExpiration, conv, convExpiration, systemPrompt,
                   clock, pc, ack, sig, doneBefore, faults, localVars, ghostVars,
                   callVars, apiVars>>

InitSync == Start(0)

NextSync == \E msgList \in Pages, nextCursor \in Cursors, ok \in BOOLEAN :
                syncMessages(msgList, nextCursor, ok)

SpecSync == InitSync /\ [][NextSync]_vars

\* a page that lets the loop go on: answered, non-empty, with a next cursor
Continues(r) == r.ok /\ r.next_cursor # 0 /\ Len(r.msg_list) > 0

RECURSIVE PagesUpTo(_)
\* the messages of the first n answered pages, in page order
PagesUpTo(n) ==
    IF n = 0 THEN <<>>
    ELSE PagesUpTo(n - 1) \o (IF requests[n].ok THEN requests[n].msg_list ELSE <<>>)

\* C25: syncAllMessages stops after a bounded number of pages whatever the
\* remote answers: once MaxPages pages have been requested the loop has
\* ended, even if every page was non-empty and carried a next cursor.
C25_LoopStopsWithinPageCap ==
    Len(requests) = MaxPages => syncPc # "loop"

\* C26: the first request carries the null cursor, every later request
\* carries the cursor returned by the page before it and is made only
\* after a page that was non-empty and had a next cursor; the accumulated
\* result is the concatenation of the pages in request order, and
\* syncAllMessages returns exactly at the first page with no next cursor
\* or an empty list.
C26_CursorChain ==
    /\ requests # <<>> => requests[1].cursor = 0
    /\ \A i \in 2..Len(requests) :
          /\ Continues(requests[i - 1])
          /\ requests[i].cursor = requests[i - 1].next_cursor
    /\ allMessages = PagesUpTo(Len(requests))
    /\ syncPc = "returned" <=>
          /\ requests # <<>>
          /\ requests[Len(requests)].ok
          /\ ~Continues(requests[Len(requests)])

\* three pages: two that continue, then an empty page that still carries
\* a cursor
C26_Witness ==
    /\ syncPc = "returned"
    /\ Len(requests) = 3
    /\ requests[3].msg_list = <<>>
    /\ requests[3].next_cursor # 0
    /\ requests[2].cursor # requests[3].cursor
    /\ Len(allMessages) = 3

(***************************************************************************)
(* getLatestTextMessages over an arbitrary sync result and ledger: the     *)
(* messages may lack content, id or send time and come in any order        *)
(***************************************************************************)
\* the sync returns one more message; 0 stands for a missing msgid or
\* send_time, a core of 0 for a missing or empty text.content
ArriveAny(msgtype, hasContent, hasId, sendTime) ==
    /\ Len(mailbox) < MaxMsgs
    /\ mailbox' = Append(mailbox,
                         [msgid |-> IF hasId THEN Len(mailbox) + 1 ELSE 0,
                          msgtype |-> msgtype,
                          content |-> [lead |-> 0, core |-> IF hasContent THEN 1 ELSE 0,
                                       trail |-> 0],
                          external_userid |-> "uA",
                          send_time |-> sendTime])
    /\ apc' = [op |-> "arrive", user |-> apc.user]
    /\ UNCHANGED <<ledger, ledgerExpiration, conv, convExpiration, systemPrompt, clock,
                   pc, ack, sig, doneBefore, faults, localVars, ghostVars, ret, appended,
                   callVars, pagerVars>>

\* getLatestTextMessages called on its own with a tracker: sort, look at
\* the first message, ask the ledger when it is a text with content and id
scanNewest(ok) ==
    /\ LET newest == NewestMessage(mailbox)
           candidate == newest # <<>> /\ IsCandidate(newest[1])
           isProcessed == candidate /\
                          isMessageProcessed(ledger[getMessageKey(newest[1].msgid)], ok)
       IN /\ latest' = [latest EXCEPT ![1] = newest]
          /\ unprocessed' = [unprocessed EXCEPT ![1] =
                               IF candidate /\ ~isProcessed THEN newest ELSE <<>>]
          /\ apc' = [op |-> "scan", user |-> apc.user, failed |-> candidate /\ ~ok]
    /\ UNCHANGED <<mailbox, ledger, ledgerExpiration, conv, convExpiration, systemPrompt,
                   clock, pc, ack, sig, doneBefore, faults, history, aiMessages,
                   assistantMessage, messageChunks, idx, ghostVars, ret, appended,
                   callVars, pagerVars>>

InitScan == Start(0)

NextScan ==
    \/ \E ty \in {"text", "image"}, hasContent \in BOOLEAN, hasId \in BOOLEAN,
          sendTime \in 0..MaxMsgs : ArriveAny(ty, hasContent, hasId, sendTime)
    \/ \E id \in MsgIds, success \in BOOLEAN : markCall(id, [success |-> success], TRUE)
    \/ \E ok \in BOOLEAN : scanNewest(ok)

SpecScan == InitScan /\ [][NextScan]_vars

\* position i holds the message the scan looks at: none has a greater send
\* time, and among those of equal send time it comes first in the sync
IsNewestAt(i) ==
    \A j \in 1..Len(mailbox) :
        \/ mailbox[j].send_time < mailbox[i].send_time
        \/ (mailbox[j].send_time = mailbox[i].send_time /\ i <= j)

\* the message at position i is a text message with content and id whose
\* ledger read either found no record or failed
Emittable(i) ==
    /\ mailbox[i].msgtype = "text"
    /\ mailbox[i].content.core > 0
    /\ mailbox[i].msgid # 0
    /\ (ledger[getMessageKey(mailbox[i].msgid)] = <<>> \/ apc.failed)

\* C27: getLatestTextMessages examines only the newest message of the sync:
\* it emits that message when it is a text message with non-empty content
\* and id that the ledger check does not report as processed (no record, or
\* the read failed), and otherwise emits nothing, whatever older messages
\* the sync holds.
C27_OnlyNewestExamined ==
    apc.op = "scan" =>
        /\ mailbox = <<>> => unprocessed[1] = <<>>
        /\ \A i \in 1..Len(mailbox) :
              IsNewestAt(i) =>
                  unprocessed[1] = IF Emittable(i) THEN <<mailbox[i]>> ELSE <<>>

\* the newest message is an image, an older text message with content and
\* id has no record: nothing is emitted
C27_Witness ==
    /\ apc.op = "scan"
    /\ Len(mailbox) = 2
    /\ IsNewestAt(2)
    /\ mailbox[2].msgtype = "image"
    /\ IsCandidate(mailbox[1])
    /\ ledger[getMessageKey(mailbox[1].msgid)] = <<>>
    /\ unprocessed[1] = <<>>

(***************************************************************************)
(* Older messages under the orchestrator                                   *)
(***************************************************************************)
\* task t's sync put message id m first
Holds(t, m) == latest[t] # <<>> /\ Msg(t).msgid = m

\* the mailbox holds message m and a message with a greater send time
Superseded(m) ==
    \E i, j \in 1..Len(mailbox) :
        mailbox[i].msgid = m /\ mailbox[j].send_time > mailbox[i].send_time

\* m is superseded, has no ledger record and no running task works on it
Discarded(m) ==
    /\ Superseded(m)
    /\ MsgRecord(m) = <<>>
    /\ \A t \in Tasks : Holds(t, m) => pc[t] \in Terminal

\* C28: an older unprocessed message is dropped without a trace and never
\* taken up again: the steps of getLatestTextMessages write no ledger
\* record; a message-level record exists only for a message that some task's
\* sync put first; once a newer message is in the mailbox no task newly
\* takes up the older one; and an older message that has no record and no
\* running task working on it stays without record for ever.
C28_OlderNeverRecovered ==
    /\ [](\A m \in MsgIds : MsgRecord(m) # <<>> => \E t \in Tasks : Holds(t, m))
    /\ [][\A t \in Tasks :
            pc[t] \in {"sync", "syncCheck"} /\ pc'[t] # pc[t] => ledger' = ledger]_vars
    /\ [][\A t \in Tasks, m \in MsgIds :
            Superseded(m) /\ ~Holds(t, m) => ~Holds(t, m)']_vars
    /\ [][\A m \in MsgIds : Discarded(m) => Discarded(m)']_vars

\* two text messages of one customer; a first task replied to the newer one
\* and recorded it, a later task found it processed, and the older message
\* has no record
C28_Witness ==
    /\ Len(mailbox) = 2
    /\ IsCandidate(mailbox[1]) /\ IsCandidate(mailbox[2])
    /\ Discarded(1)
    /\ MsgRecord(2) # <<>>
    /\ \E t1, t2 \in Tasks :
          /\ t1 \in doneBefore[t2]
          /\ Holds(t1, 2) /\ sentLog[t1] # <<>> /\ pc[t1] = "done"
          /\ Holds(t2, 2) /\ lastGet[t2] = "hit" /\ pc[t2] = "done"
          /\ unprocessed[t2] = <<>>

\* getLatestTextMessages of task t returned an empty list: the sync held no
\* message, its newest message was no text with content and id, or the
\* ledger check found that message processed
NoMessage(t) ==
    /\ decryptRet[t] = 0
    /\ ~SyncFailed(t)
    /\ pc[t] \in AfterCatch
    /\ unprocessed[t] = <<>>

\* C29: a task whose synchronizer returned no message does nothing at the
\* message level and does not fail: it has called no reply generator, tried
\* no send and read no conversation; none of its steps writes the
\* conversation store or a message-level ledger record; its next step is
\* the call-level write, which records success = true and ends the task,
\* the catch block being entered only when that write itself fails.
C29_EmptySyncIsNoOp ==
    /\ [](\A t \in Tasks :
            NoMessage(t) =>
                /\ aiCalls[t] = 0
                /\ sentLog[t] = <<>> /\ ~gwFailed[t]
                /\ history[t] = <<>> /\ aiMessages[t] = <<>>
                /\ assistantMessage[t] = <<>>
                /\ ~skipped[t])
    /\ [][\A t \in Tasks :
            NoMessage(t)' /\ pc'[t] # pc[t] =>
                /\ conv' = conv
                /\ \A m \in MsgIds : MsgRecord(m)' = MsgRecord(m)]_vars
    /\ [][\A t \in Tasks :
            NoMessage(t) /\ pc[t] = "markCall" /\ pc'[t] # pc[t] =>
                IF faults' = faults
                THEN /\ pc'[t] = "done"
                     /\ CallRecord(t)' # <<>>
                     /\ CallRecord(t)'[1].success = TRUE
                ELSE pc'[t] = "markCallFail"]_vars

\* the newest message is an image, an older text message is unrecorded: the
\* task has ended with its call recorded as a success and nothing else done
C29_Witness ==
    \E t \in Tasks :
        /\ NoMessage(t)
        /\ pc[t] = "done"
        /\ Len(mailbox) = 2
        /\ latest[t] # <<>>
        /\ Msg(t).msgtype = "image"
        /\ IsCandidate(mailbox[1])
        /\ MsgRecord(1) = <<>>
        /\ CallRecord(t) # <<>>
        /\ CallRecord(t)[1].success = TRUE
        /\ conv = [u \in Users |-> <<>>]

\* C30: a task whose ledger check at the head of processUserMessage found a
\* record for its message has stopped there: it has read and written no
\* conversation, called no reply generator, tried no text, file or apology
\* send, and none of its steps rewrites the record of the message or the
\* conversation store; it goes on to the call-level write only.
C30_SkipIsSilent ==
    /\ [](\A t \in Tasks :
            skipped[t] =>
                /\ pc[t] \in AfterCatch
                /\ aiCalls[t] = 0
                /\ sentLog[t] = <<>> /\ ~gwFailed[t]
                /\ history[t] = <<>> /\ aiMessages[t] = <<>>
                /\ assistantMessage[t] = <<>>
                /\ MsgRecord(Msg(t).msgid) # <<>>)
    /\ [][\A t \in Tasks :
            skipped'[t] /\ pc'[t] # pc[t] =>
                /\ conv' = conv
                /\ \A m \in MsgIds : MsgRecord(m)' = MsgRecord(m)]_vars

\* the synchronizer emitted the message, another task recorded it in the
\* meantime, the check at the head of processUserMessage found the record
C30_Witness ==
    \E t, u \in Tasks :
        /\ t # u
        /\ skipped[t]
        /\ pc[t] = "done"
        /\ unprocessed[t] # <<>>
        /\ ~ledgerFault[t]
        /\ Holds(u, Msg(t).msgid)
        /\ sentLog[u] # <<>>
        /\ u \notin doneBefore[t]
        /\ MsgRecord(Msg(t).msgid)[1].success = TRUE

(***************************************************************************)
(* Order of the steps of a callback task                                   *)
(***************************************************************************)
\* the awaits that can follow the await p in handleCallbackAsync and
\* processUserMessage, the first one listed being the one of the run in
\* which nothing fails and a message is replied to
Follows(p) ==
    CASE p = "idle" -> {"decrypt", "refused"}
      [] p = "decrypt" -> {"sync", "done"}
      [] p = "sync" -> {"syncCheck", "markCall", "markCallFail"}
      [] p = "syncCheck" -> {"check", "markCall"}
      [] p = "check" -> {"addUserRead", "markCall"}
      [] p = "addUserRead" -> {"addUserWrite"}
      [] p = "addUserWrite" -> {"chat", "apology"}
      [] p = "chat" -> {"addAsstRead", "apology"}
      [] p = "addAsstRead" -> {"addAsstWrite"}
      [] p = "addAsstWrite" -> {"dispatch", "markMsg", "apology"}
      [] p = "dispatch" -> {"dispatch", "sendFile", "markMsg", "apology"}
      [] p = "sendFile" -> {"dispatch", "markMsg", "apology"}
      [] p = "markMsg" -> {"markCall", "apology"}
      [] p = "apology" -> {"markMsgFail"}
      [] p = "markMsgFail" -> {"markCall", "markCallFail"}
      [] p = "markCall" -> {"done", "markCallFail"}
      [] p = "markCallFail" -> {"done", "rejected"}
      [] OTHER -> {}

\* the customer whose message task t works on
UserOf(t) == Msg(t).external_userid

\* the last entry of the stored window of u has this role and content
LastStored(u, role, content) ==
    /\ conv[u] # <<>>
    /\ conv[u][Len(conv[u])].role = role
    /\ conv[u][Len(conv[u])].content = content

\* task t came to the call-level write through the whole try block of
\* processUserMessage
CameThroughTry(t) ==
    /\ assistantMessage[t] # <<>>
    /\ ~gwFailed[t]
    /\ Apologies(t) = <<>>
    /\ ~skipped[t]

\* C31: the steps of a callback task follow one another in the order
\* decrypt, sync, ledger read, user append, generator, assistant append,
\* dispatch, message-level write, call-level write, each started only when
\* the one before has finished: a task is suspended at one await at a time
\* and moves only to an await that follows it; the sync starts with the
\* envelope decrypted, the ledger read with the synced message at hand, the
\* generator call with the user entry stored last, the dispatch with the
\* generator called once and the reply stored last, the message-level write
\* with the sends done, the call-level write with the success record stored.
C31_StepOrder ==
    /\ [][\A t \in Tasks : pc'[t] # pc[t] => pc'[t] \in Follows(pc[t])]_vars
    /\ [](\A t \in Tasks :
            /\ pc[t] = "sync" => decryptRet[t] = 0
            /\ pc[t] \in {"syncCheck", "check"} => latest[t] # <<>> /\ IsCandidate(Msg(t))
            /\ pc[t] = "addUserRead" => lastGet[t] \in {"miss", "error"}
            /\ pc[t] = "chat" =>
                  aiCalls[t] = 0 /\ LastStored(UserOf(t), "user", Msg(t).content)
            /\ pc[t] = "dispatch" =>
                  aiCalls[t] = 1 /\ LastStored(UserOf(t), "assistant", Reply(t))
            /\ pc[t] = "markMsg" => sentLog[t] # <<>> /\ ~gwFailed[t]
            /\ pc[t] = "markCall" /\ CameThroughTry(t) =>
                  /\ MsgRecord(Msg(t).msgid) # <<>>
                  /\ MsgRecord(Msg(t).msgid)[1].success = TRUE)

\* a task has run to its end without any failure: a long reply went out as
\* texts and a file, both records are written
C31_Witness ==
    \E t \in Tasks :
        /\ pc[t] = "done"
        /\ CameThroughTry(t)
        /\ ~ledgerFault[t]
        /\ Files(t) # <<>> /\ Texts(t) # <<>>
        /\ LastStored(UserOf(t), "assistant", Reply(t))
        /\ MsgRecord(Msg(t).msgid)[1].success = TRUE
        /\ CallRecord(t) # <<>>
        /\ CallRecord(t)[1].success = TRUE

(***************************************************************************)
(* The message-level success record                                        *)
(***************************************************************************)
\* the gateway calls a complete dispatch of reply r makes: one text for a
\* short reply; for a long one a text per chunk, except that a file turn
\* makes an upload and a send-as-file
ExpectedSends(r) ==
    IF ~IsLong(r) THEN 1
    ELSE LET n == Len(chunksOf(r)) IN
         n + Cardinality({i \in 0..(n - 1) : isFileTurn(i, n)})

\* every send of the dispatch of task t has succeeded
SendsComplete(t) ==
    /\ assistantMessage[t] # <<>>
    /\ Len(Texts(t)) + Len(Uploads(t)) + Len(Files(t)) = ExpectedSends(Reply(t))

\* C32: a message-level record with success = true for message m exists
\* only if some task working on m has completed every send of its dispatch
\* and has left the dispatch loop; the record carries that task's user id,
\* user content and reply; and the step that writes it is taken with all
\* sends done and none failed.
C32_SuccessAfterFullDispatch ==
    /\ [](\A m \in MsgIds :
            (MsgRecord(m) # <<>> /\ MsgRecord(m)[1].success) =>
                \E t \in Tasks :
                    /\ Holds(t, m)
                    /\ SendsComplete(t)
                    /\ pc[t] \in AfterCatch \cup {"apology", "markMsgFail"}
                    /\ MsgRecord(m)[1].assistantMessage = Reply(t)
                    /\ MsgRecord(m)[1].externalUserid = UserOf(t)
                    /\ MsgRecord(m)[1].content = Msg(t).content)
    /\ [][\A t \in Tasks :
            pc[t] = "markMsg" /\ pc'[t] # pc[t] =>
                SendsComplete(t) /\ ~gwFailed[t]]_vars

\* a long reply went out as two texts, an upload and a file, and only then
\* was the success record written
C32_Witness ==
    \E t \in Tasks :
        /\ pc[t] = "markCall"
        /\ assistantMessage[t] # <<>>
        /\ IsLong(Reply(t))
        /\ Len(sentLog[t]) = 4
        /\ MsgRecord(Msg(t).msgid) # <<>>
        /\ MsgRecord(Msg(t).msgid)[1].success
        /\ MsgRecord(Msg(t).msgid)[1].assistantMessage = Reply(t)

(***************************************************************************)
(* Sequencing of the dispatch                                              *)
(***************************************************************************)
\* the gateway calls of the reply of task t that succeeded, apologies left out
ReplySends(t) == SelectSeq(sentLog[t], LAMBDA e : ~IsApology(e))

\* C33: the sends of one dispatch are made one at a time, in chunk order,
\* and the first failure ends the dispatch: a step makes at most one send;
\* the k-th text sent of a long reply is its k-th chunk; a failing text
\* send, upload or send-as-file sends nothing and leaves the loop for the
\* catch block; and from there on no text, upload or file of the reply is
\* sent any more.
C33_SequentialFailFast ==
    /\ [][\A t \in Tasks : Len(sentLog'[t]) <= Len(sentLog[t]) + 1]_vars
    /\ [](\A t \in Tasks :
            (assistantMessage[t] # <<>> /\ IsLong(Reply(t))) =>
                \A k \in 1..Len(Texts(t)) :
                    /\ Texts(t)[k].lo = messageChunks[t][k].lo
                    /\ Texts(t)[k].hi = messageChunks[t][k].hi)
    /\ [][\A t \in Tasks :
            (pc[t] \in {"dispatch", "sendFile"} /\ pc'[t] # pc[t] /\ faults' < faults) =>
                pc'[t] = "apology" /\ sentLog'[t] = sentLog[t]]_vars
    /\ [][\A t \in Tasks :
            pc[t] \in {"apology", "markMsgFail"} \cup AfterCatch =>
                ReplySends(t)' = ReplySends(t)]_vars

\* the first chunk of a long reply was sent, the second send failed, and the
\* task has ended with nothing more of the reply sent
C33_Witness ==
    \E t \in Tasks :
        /\ pc[t] = "done"
        /\ assistantMessage[t] # <<>>
        /\ IsLong(Reply(t))
        /\ Len(messageChunks[t]) = 3
        /\ Len(ReplySends(t)) = 1
        /\ gwFailed[t]
        /\ Len(Apologies(t)) = 1

(***************************************************************************)
(* Concurrent appends to one conversation window                           *)
(***************************************************************************)
\* the stored window of u holds an entry of this role and content
Stored(u, role, content) ==
    \E i \in 1..Len(conv[u]) : conv[u][i].role = role /\ conv[u][i].content = content

\* C34: an append is a read followed by an unconditional put: the window a
\* task puts is the window it read earlier plus its entry, trimmed,
\* whatever the store holds at the time of the put; so of two concurrent
\* tasks appending for one user, both puts succeeding, the later put can
\* erase the entry of the earlier one (the state of C34_Witness).
C34_PutOfStaleRead ==
    [][\A t \in Tasks :
         /\ (pc[t] = "addUserWrite" /\ pc'[t] = "chat") =>
               conv'[UserOf(t)] =
                  trimmedHistory(Append(history[t],
                                        [role |-> "user", content |-> Msg(t).content,
                                         timestamp |-> clock]))
         /\ (pc[t] = "addAsstWrite" /\ pc'[t] \in {"dispatch", "markMsg"}) =>
               conv'[UserOf(t)] =
                  trimmedHistory(Append(history[t],
                                        [role |-> "assistant", content |-> Reply(t),
                                         timestamp |-> clock]))]_vars

\* two tasks for one customer have both stored their user entry, nothing
\* has failed, and the window holds the entry of only one of them
C34_Witness ==
    \E t1, t2 \in Tasks :
        /\ t1 # t2
        /\ pc[t1] = "chat" /\ pc[t2] = "chat"
        /\ UserOf(t1) = UserOf(t2)
        /\ Msg(t1).msgid # Msg(t2).msgid
        /\ faults = MaxFaults
        /\ Stored(UserOf(t2), "user", Msg(t2).content)
        /\ ~Stored(UserOf(t1), "user", Msg(t1).content)

(***************************************************************************)
(* One ConversationManager client per customer, their KV calls interleaved *)
(* over a store whose calls may fail: appends (a get, then a put), clears  *)
(* and statistics                                                          *)
(***************************************************************************)
MaxUserAppends == 2

\* variant: the key does not depend on the user
getConversationKey_shared(userId) == "uA"

\* `conversation:${userId}`: the key of a window, identified with its user
getConversationKey(userId) == userId

\* the client working for customer u
ClientOf(u) == IF u = "uA" THEN 1 ELSE 2

\* addUserMessage / addAssistantMessage, first await: getConversationHistory
appendRead(u, ok) ==
    /\ pc[ClientOf(u)] = "idle"
    /\ Len(appended[u]) < MaxUserAppends
    /\ history' = [history EXCEPT ![ClientOf(u)] =
                     getConversationHistory(conv[getConversationKey(u)], ok, systemPrompt)]
    /\ pc' = [pc EXCEPT ![ClientOf(u)] = "put"]
    /\ apc' = [op |-> "read", user |-> u]
    /\ ret' = <<>>
    /\ UNCHANGED <<mailbox, ledger, ledgerExpiration, conv, convExpiration, systemPrompt,
                   clock, ack, sig, doneBefore, faults, latest, unprocessed, aiMessages,
                   assistantMessage, messageChunks, idx, ghostVars, callVars, appended,
                   pagerVars>>

\* addUserMessage / addAssistantMessage, second await: push, trim and put;
\* appended[u] restarts when the window put restarts from the system entry
appendPut(u, role, ok) ==
    /\ pc[ClientOf(u)] = "put"
    /\ LET h == pushEntry(history[ClientOf(u)], role, Len(appended[u]) + 1) IN
       IF ok
       THEN /\ conv' = [conv EXCEPT ![getConversationKey(u)] = trimmedHistory(h)]
            /\ convExpiration' = putExpiration(convExpiration, getConversationKey(u))
            /\ appended' = [appended EXCEPT ![u] =
                              IF Len(h) = 2 THEN <<h[2]>> ELSE Append(@, h[Len(h)])]
            /\ ret' = trimmedHistory(h)
       ELSE /\ UNCHANGED <<conv, convExpiration, appended>>
            /\ ret' = <<>>
    /\ history' = [history EXCEPT ![ClientOf(u)] = <<>>]
    /\ pc' = [pc EXCEPT ![ClientOf(u)] = "idle"]
    /\ apc' = [op |-> "put", user |-> u, threw |-> ~ok]
    /\ UNCHANGED <<mailbox, ledger, ledgerExpiration, systemPrompt, clock, ack, sig,
                   doneBefore, faults, latest, unprocessed, aiMessages, assistantMessage,
                   messageChunks, idx, ghostVars, callVars, pagerVars>>

\* clearConversationHistory: kv.delete of the user's key; an error is rethrown
clearConversationHistory(u, ok) ==
    /\ pc[ClientOf(u)] = "idle"
    /\ IF ok
       THEN /\ conv' = [conv EXCEPT ![getConversationKey(u)] = <<>>]
            /\ convExpiration' = [convExpiration EXCEPT ![getConversationKey(u)] = 0]
            /\ appended' = [appended EXCEPT ![u] = <<>>]
       ELSE UNCHANGED <<conv, convExpiration, appended>>
    /\ apc' = [op |-> "clear", user |-> u, threw |-> ~ok]
    /\ ret' = <<>>
    /\ UNCHANGED <<mailbox, ledger, ledgerExpiration, systemPrompt, clock, pc, ack, sig,
                   doneBefore, faults, localVars, ghostVars, callVars, pagerVars>>

InitUsers == Start(0)

NextUsers ==
    \/ \E u \in Users, ok \in BOOLEAN : appendRead(u, ok)
    \/ \E u \in Users, role \in {"user", "assistant"}, ok \in BOOLEAN : appendPut(u, role, ok)
    \/ \E u \in Users, ok \in BOOLEAN : clearConversationHistory(u, ok)
    \/ \E u \in Users, ok \in BOOLEAN : getConversationStats(u, ok)
    \/ \E p \in Prompts : setSystemPrompt(p)

SpecUsers == InitUsers /\ [][NextUsers]_vars

\* C35: calls for different customers never touch each other's window: a
\* read, put, clear or statistics call made for customer A leaves the stored
\* window and expiration of every other customer unchanged, and the window
\* of a customer is at every moment the one its own calls produce (the
\* entries it appended since its last clear or restart), however the calls
\* of the other customer are interleaved.
C35_UsersIsolated ==
    /\ [][\A a, b \in Users :
            (a # b /\ apc'.op \in {"read", "put", "clear", "stats"} /\ apc'.user = a) =>
                /\ conv'[b] = conv[b]
                /\ convExpiration'[b] = convExpiration[b]
                /\ appended'[b] = appended[b]]_vars
    /\ [](\A u \in Users :
            IF appended[u] = <<>> THEN conv[u] = <<>>
            ELSE /\ conv[u][1].role = "system"
                 /\ Tail(conv[u]) = appended[u])

\* customer B holds the two entries it appended, with their expiration, right
\* after customer A's window was cleared
C35_Witness ==
    /\ Len(appended["uB"]) = 2
    /\ Len(conv["uB"]) = 3
    /\ apc.op = "clear" /\ apc.user = "uA" /\ ~apc.threw
    /\ conv["uA"] = <<>>
    /\ convExpiration["uB"] > 0

\* C36: a failing store read inside addUserMessage or addAssistantMessage
\* is not an error of the append: the read answers the one-entry window
\* [current system entry], and when the put that follows succeeds the stored
\* window is exactly [current system entry, new entry]; what was stored
\* before is overwritten.
C36_FailedReadOverwrites ==
    [][\A t \in Tasks :
         /\ (pc[t] \in {"addUserRead", "addAsstRead"} /\ pc'[t] # pc[t] /\ faults' < faults) =>
               /\ history'[t] = <<SystemEntry(systemPrompt)>>
               /\ pc'[t] \in {"addUserWrite", "addAsstWrite"}
         /\ (pc[t] = "addUserWrite" /\ pc'[t] = "chat"
               /\ history[t] = <<SystemEntry(systemPrompt)>>) =>
               conv'[UserOf(t)] = <<SystemEntry(systemPrompt),
                                    [role |-> "user", content |-> Msg(t).content,
                                     timestamp |-> clock]>>
         /\ (pc[t] = "addAsstWrite" /\ pc'[t] \in {"dispatch", "markMsg"}
               /\ history[t] = <<SystemEntry(systemPrompt)>>) =>
               conv'[UserOf(t)] = <<SystemEntry(systemPrompt),
                                    [role |-> "assistant", content |-> Reply(t),
                                     timestamp |-> clock]>>]_vars

\* the read of the assistant append failed after the user entry of the same
\* task had been stored: the window holds the system entry and the reply only
C36_Witness ==
    \E t \in Tasks :
        /\ assistantMessage[t] # <<>>
        /\ pc[t] \in {"dispatch", "markMsg"}
        /\ faults < MaxSeqFaults
        /\ Len(conv[UserOf(t)]) = 2
        /\ LastStored(UserOf(t), "assistant", Reply(t))
        /\ ~Stored(UserOf(t), "user", Msg(t).content)

(***************************************************************************)
(* Callbacks of customers who already have a conversation: each stored     *)
(* window is one entry short of full and opens with the system entry of an *)
(* earlier deployment                                                      *)
(***************************************************************************)
\* the window left by earlier callbacks: n entries after the system entry
Backlog(n, prompt) ==
    <<SystemEntry(prompt)>> \o
    [i \in 1..n |-> [role |-> IF i % 2 = 1 THEN "user" ELSE "assistant",
                     content |-> [lead |-> 0, core |-> i, trail |-> 0],
                     timestamp |-> 0]]

InitWindow ==
    /\ mailbox = <<>>
    /\ ledger = [k \in Keys |-> <<>>]
    /\ conv = [u \in Users |-> Backlog(maxHistoryLength - 1, "P2")]
    /\ systemPrompt = "P1"
    /\ clock = 0
    /\ pc = [t \in Tasks |-> "idle"]
    /\ ack = [t \in Tasks |-> "none"]
    /\ sig = [t \in Tasks |-> 0]
    /\ latest = [t \in Tasks |-> <<>>]
    /\ unprocessed = [t \in Tasks |-> <<>>]
    /\ history = [t \in Tasks |-> <<>>]
    /\ aiMessages = [t \in Tasks |-> <<>>]
    /\ assistantMessage = [t \in Tasks |-> <<>>]
    /\ messageChunks = [t \in Tasks |-> <<>>]
    /\ idx = [t \in Tasks |-> 0]
    /\ sentLog = [t \in Tasks |-> <<>>]
    /\ aiCalls = [t \in Tasks |-> 0]
    /\ lastGet = [t \in Tasks |-> "none"]
    /\ skipped = [t \in Tasks |-> FALSE]
    /\ gwFailed = [t \in Tasks |-> FALSE]
    /\ ledgerFault = [t \in Tasks |-> FALSE]
    /\ doneBefore = [t \in Tasks |-> {}]
    /\ faults = MaxFaults
    /\ decryptRet = [t \in Tasks |-> 1]
    /\ callError = [t \in Tasks |-> "none"]
    /\ apc = [op |-> "idle", user |-> "uA"]
    /\ ret = <<>>
    /\ appended = [u \in Users |-> <<>>]
    /\ ledgerExpiration = [k \in Keys |-> 0]
    /\ convExpiration = [u \in Users |-> expirationTtl]
    /\ cursor = 0
    /\ allMessages = <<>>
    /\ requests = <<>>
    /\ syncPc = "loop"

SpecWindow == InitWindow /\ [][Next]_vars

\* C37: the window a task hands to the generator opens with the current
\* system entry, ends with the user message the task is working on, has at
\* most 1 + maxHistoryLength entries, and each entry carries a role and a
\* content and nothing else; whatever other tasks do for the same customer
\* meanwhile.
C37_GeneratorWindow ==
    \A t \in Tasks :
        pc[t] = "chat" =>
            /\ aiMessages[t] # <<>>
            /\ Len(aiMessages[t]) <= 1 + maxHistoryLength
            /\ \A i \in 1..Len(aiMessages[t]) : DOMAIN aiMessages[t][i] = {"role", "content"}
            /\ aiMessages[t][1] = SystemEntry(systemPrompt)
            /\ aiMessages[t][Len(aiMessages[t])].role = "user"
            /\ aiMessages[t][Len(aiMessages[t])].content = Msg(t).content

\* a task is about to call the generator with a window that was trimmed: the
\* other task, also about to call it, had put its user entry for the same
\* customer in between, and the oldest stored entry was evicted
C37_Witness ==
    \E t1, t2 \in Tasks :
        /\ t1 # t2
        /\ pc[t1] = "chat"
        /\ pc[t2] = "chat"
        /\ UserOf(t1) = UserOf(t2)
        /\ Msg(t1).msgid # Msg(t2).msgid
        /\ Len(aiMessages[t1]) = 1 + maxHistoryLength
        /\ Len(aiMessages[t2]) = 1 + maxHistoryLength
        /\ aiMessages[t1][2].content.core = 2
        /\ aiMessages[t1][maxHistoryLength].role = "user"
        /\ aiMessages[t1][maxHistoryLength].content = Msg(t2).content

\* a send, upload or send-as-file of the dispatch of task t has failed: the
\* task is at the apology with a gateway failure behind it, or it has left
\* the loop of a chunked reply with sends missing
DispatchFailed(t) ==
    /\ assistantMessage[t] # <<>>
    /\ \/ pc[t] = "apology" /\ gwFailed[t]
       \/ /\ messageChunks[t] # <<>>
          /\ ~SendsComplete(t)
          /\ pc[t] \in {"apology", "markMsgFail"} \cup AfterCatch

\* the positions of a running task from the catch block of processUserMessage
\* to the call-level write
CatchPath == {"apology", "markMsgFail", "markCall", "markCallFail"}

\* C38 as stated: once dispatch has failed and the catch block is over, the
\* message is recorded with success = false, the user has received the
\* apology, and the stored window ends with the assistant reply.
C38_RecordedAndApologised ==
    \A t \in Tasks :
        (DispatchFailed(t) /\ pc[t] \in {"markCall", "markCallFail"}) =>
            /\ MsgRecord(Msg(t).msgid) # <<>>
            /\ ~MsgRecord(Msg(t).msgid)[1].success
            /\ Len(Apologies(t)) = 1
            /\ LastStored(UserOf(t), "assistant", Reply(t))

\* C38 amended: the assistant reply is the last entry of the stored window
\* when dispatch starts and no later step of the task writes the window:
\* after a failed dispatch it is still the last entry all along the catch
\* block and the call-level write; the apology is sent when its send
\* succeeds, and the message is recorded with success = false when that
\* ledger write succeeds.
C38_ReplyStaysStored ==
    /\ [](\A t \in Tasks :
            pc[t] \in {"dispatch", "sendFile"} =>
                /\ assistantMessage[t] # <<>>
                /\ LastStored(UserOf(t), "assistant", Reply(t)))
    /\ [](\A t \in Tasks :
            (DispatchFailed(t) /\ pc[t] \in CatchPath) =>
                /\ LastStored(UserOf(t), "assistant", Reply(t))
                /\ Len(Apologies(t)) <= 1
                /\ pc[t] = "markCall" =>
                      /\ MsgRecord(Msg(t).msgid) # <<>>
                      /\ ~MsgRecord(Msg(t).msgid)[1].success)
    /\ [][\A t \in Tasks :
            pc[t] \in {"dispatch", "sendFile", "markMsg"} \cup CatchPath =>
                conv' = conv]_vars
    /\ [][\A t \in Tasks :
            (pc[t] = "apology" /\ pc'[t] # pc[t] /\ faults' = faults) =>
                Len(Apologies(t))' = Len(Apologies(t)) + 1]_vars

\* the second chunk of a reply could not be sent: the apology was sent, the
\* message is recorded as failed, and the window still ends with the reply
C38_Witness ==
    \E t \in Tasks :
        /\ DispatchFailed(t)
        /\ pc[t] = "markCall"
        /\ Len(ReplySends(t)) = 1
        /\ Len(Apologies(t)) = 1
        /\ MsgRecord(Msg(t).msgid) # <<>>
        /\ ~MsgRecord(Msg(t).msgid)[1].success
        /\ LastStored(UserOf(t), "assistant", Reply(t))

(***************************************************************************)
(* Sequential deliveries, with the two exceptions that do not come from a  *)
(* collaborator: an envelope that does not parse, and a deployment with a  *)
(* KV namespace missing                                                    *)
(***************************************************************************)
\* xmlParse.parseXML(decryptedXml) / xml.Token throws: the catch block of
\* handleCallbackAsync is entered before anything was fetched
parseXMLError(t) ==
    /\ pc[t] = "sync"
    /\ Outcome(FALSE)
    /\ pc' = [pc EXCEPT ![t] = "markCallFail"]
    /\ callError' = [callError EXCEPT ![t] = "parse"]
    /\ UNCHANGED <<ledger, ledgerExpiration, conv, convExpiration, clock, ack, sig,
                   doneBefore, envVars, localVars, ghostVars, apiVars, decryptRet,
                   pagerVars>>

\* processUserMessage throws on a missing CONVERSATIONS or MESSAGE_TRACKER
\* binding. Without MESSAGE_TRACKER (tracker) the ledger read of
\* getLatestTextMessages has failed before, and the put of the catch block
\* of handleCallbackAsync fails as well
storeNotConfigured(t, tracker) ==
    /\ pc[t] = "check"
    /\ tracker => lastGet[t] = "error"
    /\ Outcome(FALSE)
    /\ pc' = [pc EXCEPT ![t] = IF tracker THEN "rejected" ELSE "markCallFail"]
    /\ callError' = [callError EXCEPT ![t] = "config"]
    /\ ledgerFault' = [ledgerFault EXCEPT ![t] = @ \/ tracker]
    /\ UNCHANGED <<ledger, ledgerExpiration, conv, convExpiration, clock, ack, sig,
                   doneBefore, envVars, localVars, sentLog, aiCalls, lastGet, skipped,
                   gwFailed, apiVars, decryptRet, pagerVars>>

\* new WXBizMsgCrypt(...) throws on an empty token, key or corp id: the catch
\* block of handleCallbackAsync is entered before decryptMsg is called
cryptNotConfigured(t) ==
    /\ pc[t] = "decrypt"
    /\ Outcome(FALSE)
    /\ pc' = [pc EXCEPT ![t] = "markCallFail"]
    /\ callError' = [callError EXCEPT ![t] = "config"]
    /\ UNCHANGED <<ledger, ledgerExpiration, conv, convExpiration, clock, ack, sig,
                   doneBefore, envVars, localVars, ghostVars, apiVars, decryptRet,
                   pagerVars>>

NextCall ==
    \/ NextSeq
    \/ \E t \in Tasks : cryptNotConfigured(t)
    \/ \E t \in Tasks : parseXMLError(t)
    \/ \E t \in Tasks, tracker \in BOOLEAN : storeNotConfigured(t, tracker)

SpecCall == InitSeq /\ [][NextCall]_vars

\* task t is the only delivery of its signature and of its message so far
Alone(t) ==
    \A u \in Tasks \ {t} :
        /\ sig[u] # sig[t]
        /\ latest[t] # <<>> => ~Holds(u, Msg(t).msgid)

\* the try block of processUserMessage of task t ended in its catch block
\* after a failed generation or a failed dispatch
FailedInside(t) == GenerationFailed(t) \/ DispatchFailed(t)

\* C39 as stated: when generation or dispatch failed inside
\* processUserMessage and the message-level record was written with
\* success = false, the task ends with the call-level record success = true.
C39_CallTrueAfterMessageFailure ==
    \A t \in Tasks :
        (pc[t] = "done" /\ latest[t] # <<>> /\ Alone(t) /\ FailedInside(t)
           /\ MsgRecord(Msg(t).msgid) # <<>>) =>
            /\ ~MsgRecord(Msg(t).msgid)[1].success
            /\ CallRecord(t) # <<>>
            /\ CallRecord(t)[1].success

\* C39 amended: a call-level record is written only by the last write of the
\* try block, with success = true, and by the write of the catch block, with
\* success = false; the catch block is entered exactly when an exception has
\* reached handleCallbackAsync (a failing sync, parse, configuration check,
\* message-level write in the catch block of processUserMessage, or the
\* failing call-level write of the try block itself); a task that ended with
\* a record of its own has success = false exactly in that case; and after a
\* failure of generation or dispatch whose message-level write succeeded
\* the task is at the call-level write of the try block with no exception
\* pending and the message recorded with success = false.
C39_CallFlag ==
    /\ [][\A s \in Sigs :
            ledger'[getMessageKey(s)] # ledger[getMessageKey(s)] =>
                \E t \in Tasks :
                    /\ sig[t] = s
                    /\ pc'[t] = "done"
                    /\ \/ pc[t] = "markCall" /\ ledger'[getMessageKey(s)][1].success
                       \/ pc[t] = "markCallFail" /\ ~ledger'[getMessageKey(s)][1].success]_vars
    /\ [][\A t \in Tasks :
            (pc[t] = "markMsgFail" /\ pc'[t] # pc[t] /\ faults' = faults) =>
                pc'[t] = "markCall" /\ callError'[t] = "none"]_vars
    /\ [](\A t \in Tasks :
            /\ pc[t] \in {"markCallFail", "rejected"} => callError[t] # "none"
            /\ pc[t] \in {"sync", "syncCheck", "check", "markCall"} => callError[t] = "none"
            /\ (pc[t] = "done" /\ decryptRet[t] \in {0, 1} /\ Alone(t)) =>
                  /\ CallRecord(t) # <<>>
                  /\ CallRecord(t)[1].success <=> callError[t] = "none"
            /\ (pc[t] = "markCall" /\ FailedInside(t) /\ Alone(t)) =>
                  /\ MsgRecord(Msg(t).msgid) # <<>>
                  /\ ~MsgRecord(Msg(t).msgid)[1].success)

\* generation failed, the message is recorded with success = false, and the
\* call has ended recorded with success = true
C39_Witness ==
    \E t \in Tasks :
        /\ pc[t] = "done"
        /\ latest[t] # <<>>
        /\ Alone(t)
        /\ GenerationFailed(t)
        /\ callError[t] = "none"
        /\ MsgRecord(Msg(t).msgid) # <<>>
        /\ ~MsgRecord(Msg(t).msgid)[1].success
        /\ CallRecord(t) # <<>>
        /\ CallRecord(t)[1].success

(***************************************************************************)
(* Sequential deliveries with decryptMsg spelled out: the extraction of    *)
(* the ciphertext, the signature the crypto service computes, the          *)
(* comparison with msg_signature, and the decryption                       *)
(***************************************************************************)
\* variant: the ciphertext is decrypted before the signatures are compared
decryptMsgResult_decryptFirst(extractRet, computed, sigOk, sMsgSignature, decryptOk) ==
    IF extractRet # 0
    THEN [ret |-> extractRet, signature |-> 0, decryptCalled |-> FALSE, payload |-> FALSE]
    ELSE IF ~decryptOk
    THEN [ret |-> -40007, signature |-> 0, decryptCalled |-> TRUE, payload |-> FALSE]
    ELSE IF ~sigOk
    THEN [ret |-> -40007, signature |-> 0, decryptCalled |-> TRUE, payload |-> FALSE]
    ELSE IF computed # sMsgSignature
    THEN [ret |-> -40001, signature |-> computed, decryptCalled |-> TRUE, payload |-> FALSE]
    ELSE [ret |-> 0, signature |-> computed, decryptCalled |-> TRUE, payload |-> TRUE]

\* WXBizMsgCrypt.decryptMsg: extractRet is the ret of xmlParse.extract;
\* computed is the signature the crypto service answers for (token,
\* timestamp, nonce, ciphertext), sigOk and decryptOk say whether the two
\* service calls succeed. signature: the signature compared (0: none),
\* decryptCalled: decrypt was called, payload: decryptedXml is the plaintext
decryptMsgResult(extractRet, computed, sigOk, sMsgSignature, decryptOk) ==
    IF extractRet # 0
    THEN [ret |-> extractRet, signature |-> 0, decryptCalled |-> FALSE, payload |-> FALSE]
    ELSE IF ~sigOk
    THEN [ret |-> -40007, signature |-> 0, decryptCalled |-> FALSE, payload |-> FALSE]
    ELSE IF computed # sMsgSignature
    THEN [ret |-> -40001, signature |-> computed, decryptCalled |-> FALSE, payload |-> FALSE]
    ELSE IF ~decryptOk
    THEN [ret |-> -40007, signature |-> computed, decryptCalled |-> TRUE, payload |-> FALSE]
    ELSE [ret |-> 0, signature |-> computed, decryptCalled |-> TRUE, payload |-> TRUE]

\* handleCallbackAsync: await wxcrypt.decryptMsg(...), then the test of ret;
\* a failing service call uses up a failure of the budget
decryptEnvelope(t, extractRet, computed, sigOk, decryptOk) ==
    /\ pc[t] = "decrypt"
    /\ LET r == decryptMsgResult(extractRet, computed, sigOk, sig[t], decryptOk) IN
       /\ Outcome(r.ret # -40007)
       /\ decryptRet' = [decryptRet EXCEPT ![t] = r.ret]
       /\ pc' = [pc EXCEPT ![t] = IF r.ret = 0 THEN "sync" ELSE "done"]
       /\ apc' = [op |-> "decryptMsg", user |-> apc.user, extractRet |-> extractRet,
                  signature |-> r.signature, sMsgSignature |-> sig[t],
                  decryptCalled |-> r.decryptCalled, payload |-> r.payload]
    /\ UNCHANGED <<ledger, ledgerExpiration, conv, convExpiration, clock, ack, sig,
                   doneBefore, envVars, localVars, ghostVars, ret, appended, callError,
                   pagerVars>>

NextCrypt ==
    \/ \E t \in Tasks, s \in Sigs, valid \in BOOLEAN : Quiet /\ handleCallback(t, s, valid)
    \/ \E t \in Tasks, extractRet \in {0, -40002}, computed \in Sigs, sigOk \in BOOLEAN,
          decryptOk \in BOOLEAN :
            decryptEnvelope(t, extractRet, computed, sigOk, decryptOk)
    \/ \E t \in Tasks, ok \in BOOLEAN : syncAllMessages(t, ok)
    \/ \E t \in Tasks, ok \in BOOLEAN : getLatestTextMessages(t, ok)
    \/ \E t \in Tasks, ok \in BOOLEAN : checkProcessed(t, ok)
    \/ \E t \in Tasks, ok \in BOOLEAN : readHistory(t, ok)
    \/ \E t \in Tasks, ok \in BOOLEAN : addUserMessage(t, ok)
    \/ \E t \in Tasks, ok \in BOOLEAN, r \in Replies \cup {[lead |-> 0, core |-> 0, trail |-> 0]} :
            chatCompletion(t, ok, r)
    \/ \E t \in Tasks, ok \in BOOLEAN : addAssistantMessage(t, ok)
    \/ \E t \in Tasks, ok \in BOOLEAN : sendTextMessage(t, ok)
    \/ \E t \in Tasks, ok \in BOOLEAN : uploadMedia(t, ok)
    \/ \E t \in Tasks, ok \in BOOLEAN : sendFileMessage(t, ok)
    \/ \E t \in Tasks, ok \in BOOLEAN : markSuccess(t, ok)
    \/ \E t \in Tasks, ok \in BOOLEAN : sendApology(t, ok)
    \/ \E t \in Tasks, ok \in BOOLEAN : markFailure(t, ok)
    \/ \E t \in Tasks, ok \in BOOLEAN : markCallback(t, ok)
    \/ \E t \in Tasks, ok \in BOOLEAN : markCallbackFailed(t, ok)
    \/ \E u \in Users, ty \in {"text", "image"} : Arrive(u, ty)

SpecCrypt == InitSeq /\ [][NextCrypt]_vars

\* C40: decryptMsg answers ret = 0, with the plaintext, only for an envelope
\* whose ciphertext was extracted and whose computed signature equals the
\* supplied msg_signature; on a mismatch it answers a non-zero ret and
\* decrypt is not called; and a task goes on to the sync exactly when ret
\* is 0, ending otherwise.
C40_OnlyMatchingSignature ==
    [][\A t \in Tasks :
         (pc[t] = "decrypt" /\ pc'[t] # pc[t]) =>
             /\ apc'.op = "decryptMsg"
             /\ apc'.sMsgSignature = sig[t]
             /\ decryptRet'[t] = 0 =>
                   /\ apc'.extractRet = 0
                   /\ apc'.signature = sig[t]
                   /\ apc'.decryptCalled
                   /\ apc'.payload
             /\ decryptRet'[t] # 0 => ~apc'.payload
             /\ (apc'.signature \in Sigs /\ apc'.signature # sig[t]) =>
                   /\ decryptRet'[t] = -40001
                   /\ ~apc'.decryptCalled
             /\ pc'[t] = IF decryptRet'[t] = 0 THEN "sync" ELSE "done"]_vars

\* one delivery ended on a signature mismatch, without decryption and
\* without any record or send; the next one matched and is at the sync
C40_Witness ==
    \E t, u \in Tasks :
        /\ t # u
        /\ pc[u] = "done"
        /\ decryptRet[u] = -40001
        /\ sentLog[u] = <<>>
        /\ pc[t] = "sync"
        /\ decryptRet[t] = 0
        /\ apc.op = "decryptMsg"
        /\ apc.signature = sig[t]
        /\ apc.decryptCalled

====
